---- MODULE Spec2Model ----
(***************************************************************************)
(* The 8-bit machine of the assembler simulator: step (features/cpu/core)  *)
(* as a state machine over memory, registers and the signal bus.           *)
(***************************************************************************)
EXTENDS Integers, Sequences, FiniteSets, TLC

(***************************************************************************)
(* Bounds of the model.                                                    *)
(***************************************************************************)
\* Operand bytes are sampled SampleSpan wide at 0x00, around 0x80 and at 0xFF.
SampleSpan == 2
\* The longest run of steps followed from an initial state.
MaxSteps == 4

(***************************************************************************)
(* JavaScript values that are not numbers.  Numbers of the machine stay    *)
(* far above these.                                                        *)
(***************************************************************************)
null == -1000
undefined == -2000
NaN == -3000

IsNumber(v) == v \notin {null, undefined, NaN}

\* a > b and a < b of JavaScript: false as soon as one side is undefined or NaN.
Gt(a, b) == IsNumber(a) /\ IsNumber(b) /\ a > b
Lt(a, b) == IsNumber(a) /\ IsNumber(b) /\ a < b
Ge(a, b) == IsNumber(a) /\ IsNumber(b) /\ a >= b

\* a + b of JavaScript: NaN as soon as one side is undefined or NaN.
Plus(a, b) == IF IsNumber(a) /\ IsNumber(b) THEN a + b ELSE NaN

(***************************************************************************)
(* Constants.                                                              *)
(***************************************************************************)
HARDWARE_INTERRUPT_VECTOR_ADDR == 2
MAX_SP == 191
MAX_PORT == 15

GeneralPurposeRegister == [AL |-> 0, BL |-> 1, CL |-> 2, DL |-> 3]
Flag == [Zero |-> 0, Overflow |-> 1, Sign |-> 2, Interrupt |-> 3]
FlagStatus == [Off |-> 0, On |-> 1]

\* common/constants: the opcode bytes of the instruction set.
Opcode ==
  [ END |-> 0, HALT |-> 0,
    ADD_REG_TO_REG |-> 160, SUB_REG_FROM_REG |-> 161, MUL_REG_BY_REG |-> 162,
    DIV_REG_BY_REG |-> 163, INC_REG |-> 164, DEC_REG |-> 165,
    MOD_REG_BY_REG |-> 166,
    AND_REG_WITH_REG |-> 170, OR_REG_WITH_REG |-> 171, XOR_REG_WITH_REG |-> 172,
    NOT_REG |-> 173,
    ROL_REG |-> 154, ROR_REG |-> 155, SHL_REG |-> 156, SHR_REG |-> 157,
    ADD_NUM_TO_REG |-> 176, SUB_NUM_FROM_REG |-> 177, MUL_REG_BY_NUM |-> 178,
    DIV_REG_BY_NUM |-> 179, MOD_REG_BY_NUM |-> 182,
    AND_REG_WITH_NUM |-> 186, OR_REG_WITH_NUM |-> 187, XOR_REG_WITH_NUM |-> 188,
    JMP |-> 192, JZ |-> 193, JNZ |-> 194, JS |-> 195, JNS |-> 196,
    JO |-> 197, JNO |-> 198,
    MOV_NUM_TO_REG |-> 208, MOV_ADDR_TO_REG |-> 209, MOV_REG_TO_ADDR |-> 210,
    MOV_REG_ADDR_TO_REG |-> 211, MOV_REG_TO_REG_ADDR |-> 212,
    CMP_REG_WITH_REG |-> 218, CMP_REG_WITH_NUM |-> 219, CMP_REG_WITH_ADDR |-> 220,
    PUSH_FROM_REG |-> 224, POP_TO_REG |-> 225, PUSHF |-> 234, POPF |-> 235,
    CALL_ADDR |-> 202, RET |-> 203, INT_ADDR |-> 204, IRET |-> 205,
    IN_FROM_PORT_TO_AL |-> 240, OUT_FROM_AL_TO_PORT |-> 241,
    STI |-> 252, CLI |-> 253, CLO |-> 254, NOP |-> 255 ]

(***************************************************************************)
(* Errors: what a throw carries.  NoError is a step that returned.         *)
(***************************************************************************)
NoError == "None"
InvalidRegisterError == "InvalidRegisterError"
RunBeyondEndOfMemoryError == "RunBeyondEndOfMemoryError"
StackOverflowError == "StackOverflowError"
StackUnderflowError == "StackUnderflowError"
InvalidPortError == "InvalidPortError"
InvalidOpcodeError == "InvalidOpcodeError"
DivideByZeroError == "DivideByZeroError"

RuntimeError ==
  { InvalidRegisterError, RunBeyondEndOfMemoryError, StackOverflowError,
    StackUnderflowError, InvalidPortError, InvalidOpcodeError, DivideByZeroError }

\* The outcome of a call that may throw: the value it returns, or the error.
Returns(v) == [error |-> NoError, value |-> v]
Throws(e) == [error |-> e, value |-> undefined]
\* A throw of an error constructed with an argument: new e(argument).
ThrowsWith(e, argument) == [error |-> e, value |-> argument]

(***************************************************************************)
(* common/utils and the bit operators of JavaScript on integers.           *)
(***************************************************************************)
sign8(unsigned) ==
  IF Ge(unsigned, 128) THEN unsigned - 256 ELSE unsigned

unsign8(signed) ==
  IF Lt(signed, 0) THEN signed + 256 ELSE signed

RECURSIVE BitAnd(_, _)
BitAnd(a, b) ==
  IF a = 0 \/ b = 0 THEN 0
  ELSE IF a = -1 THEN b
  ELSE IF b = -1 THEN a
  ELSE 2 * BitAnd(a \div 2, b \div 2) + (a % 2) * (b % 2)

RECURSIVE BitOr(_, _)
BitOr(a, b) ==
  IF a = 0 THEN b
  ELSE IF b = 0 THEN a
  ELSE IF a = -1 \/ b = -1 THEN -1
  ELSE 2 * BitOr(a \div 2, b \div 2) + (IF a % 2 = 1 \/ b % 2 = 1 THEN 1 ELSE 0)

RECURSIVE BitXor(_, _)
BitXor(a, b) ==
  IF a = 0 THEN b
  ELSE IF b = 0 THEN a
  ELSE IF a = -1 THEN (-b) - 1
  ELSE IF b = -1 THEN (-a) - 1
  ELSE 2 * BitXor(a \div 2, b \div 2) + (((a % 2) + (b % 2)) % 2)

\* Math.floor(a / b) for b # 0.
FloorDiv(a, b) == IF b > 0 THEN a \div b ELSE (-a) \div (-b)

\* a % b of JavaScript for b # 0: the remainder has the sign of a.
Rem(a, b) ==
  LET m == IF b > 0 THEN b ELSE -b
  IN IF a >= 0 THEN a % m ELSE -((-a) % m)

(***************************************************************************)
(* features/cpu/core/operations: operate passes the source operand first   *)
(* and the destination (the previous value) last.                          *)
(***************************************************************************)
\* A faulty variant of checkDivisor: one is refused as well.
checkDivisor_belowTwo(value) ==
  IF value <= 1 THEN Throws(DivideByZeroError) ELSE Returns(value)

checkDivisor(value) ==
  IF value = 0 THEN Throws(DivideByZeroError) ELSE Returns(value)

add(addend, augend) == Returns(augend + addend)
substract(subtrahend, minuend) == Returns(minuend - subtrahend)
multiply(multiplier, multiplicand) == Returns(multiplicand * multiplier)
divide(divisor, dividend) ==
  IF checkDivisor(divisor).error # NoError THEN checkDivisor(divisor)
  ELSE Returns(FloorDiv(dividend, divisor))
modulo(divisor, dividend) ==
  IF checkDivisor(divisor).error # NoError THEN checkDivisor(divisor)
  ELSE Returns(Rem(dividend, divisor))
and(n1, n2) == Returns(BitAnd(n2, n1))
or(n1, n2) == Returns(BitOr(n2, n1))
xor(n1, n2) == Returns(BitXor(n2, n1))
increase(n) == Returns(n + 1)
decrease(n) == Returns(n - 1)
not(n) == Returns((-n) - 1)
rol(n) == Returns(2 * n + FloorDiv(n, 128))
ror(n) == Returns(Rem(n, 2) * 128 + FloorDiv(n, 2))
shl(n) == Returns(2 * n)
shr(n) == Returns(FloorDiv(n, 2))

(***************************************************************************)
(* features/cpu/core: the checks and the status register.                  *)
(***************************************************************************)
initRegisters ==
  [ gpr |-> [r \in 0..3 |-> 0],
    ip |-> 0,
    sp |-> MAX_SP,
    sr |-> [f \in 0..3 |-> FlagStatus.Off] ]

\* A faulty variant of checkGpr: the upper bound is one too high.
checkGpr_allowingFour(register) ==
  IF Lt(register, GeneralPurposeRegister.AL) \/ Gt(register, GeneralPurposeRegister.DL + 1)
  THEN ThrowsWith(InvalidRegisterError, register)
  ELSE Returns(register)

checkGpr(register) ==
  IF Lt(register, GeneralPurposeRegister.AL) \/ Gt(register, GeneralPurposeRegister.DL)
  THEN ThrowsWith(InvalidRegisterError, register)
  ELSE Returns(register)

checkIp(address) ==
  IF Gt(address, 255) THEN Throws(RunBeyondEndOfMemoryError) ELSE Returns(address)

\* A faulty variant of checkSp: the lower bound is not checked.
checkSp_noLowerBound(address) ==
  IF Gt(address, MAX_SP) THEN Throws(StackUnderflowError) ELSE Returns(address)

checkSp(address) ==
  IF Lt(address, 0) THEN Throws(StackOverflowError)
  ELSE IF Gt(address, MAX_SP) THEN Throws(StackUnderflowError)
  ELSE Returns(address)

\* 0b10 ** k
Pow2(k) == CASE k = 0 -> 1 [] k = 1 -> 2 [] k = 2 -> 4 [] k = 3 -> 8 [] k = 4 -> 16

\* A faulty variant of getSrValue: flag i is put at bit i.
getSrValue_fromBitZero(sr) ==
  sr[0] * Pow2(0) + sr[1] * Pow2(1) + sr[2] * Pow2(2) + sr[3] * Pow2(3)

getSrValue(sr) ==
  sr[0] * Pow2(1) + sr[1] * Pow2(2) + sr[2] * Pow2(3) + sr[3] * Pow2(4)

\* A faulty variant of getSrFrom: flag i is read from bit i.
getSrFrom_fromBitZero(value) ==
  [f \in 0..3 |-> (value \div Pow2(f)) % 2]

\* value.toString(2).padStart(5, '0').slice(-5, -1) read right to left: the
\* binary digits 1..4 of value, lowest first.
getSrFrom(value) ==
  [f \in 0..3 |-> (value \div Pow2(f + 1)) % 2]

\* A faulty variant of checkOperationResult: a result above 0xff is brought
\* back by one subtraction of 0x100, and Sign is taken from the raw result.
checkOperationResult_subtractOnce(result, previousValue) ==
  LET overflow ==
        IF (previousValue < 128 /\ result >= 128) \/ (previousValue >= 128 /\ result < 128)
        THEN FlagStatus.On ELSE FlagStatus.Off
      finalResult == IF result > 255 THEN result - 256 ELSE unsign8(result)
      zero == IF finalResult = 0 THEN FlagStatus.On ELSE FlagStatus.Off
      sign == IF finalResult # 0 /\ result >= 128 THEN FlagStatus.On ELSE FlagStatus.Off
  IN [ finalResult |-> finalResult,
       flags |-> [f \in 0..2 |-> CASE f = Flag.Zero -> zero
                                   [] f = Flag.Overflow -> overflow
                                   [] f = Flag.Sign -> sign] ]

checkOperationResult(result, previousValue) ==
  LET overflow ==
        IF (previousValue < 128 /\ result >= 128) \/ (previousValue >= 128 /\ result < 128)
        THEN FlagStatus.On ELSE FlagStatus.Off
      finalResult == IF result > 255 THEN result % 256 ELSE unsign8(result)
      zero == IF finalResult = 0 THEN FlagStatus.On ELSE FlagStatus.Off
      sign == IF finalResult # 0 /\ finalResult >= 128 THEN FlagStatus.On ELSE FlagStatus.Off
  IN [ finalResult |-> finalResult,
       flags |-> [f \in 0..2 |-> CASE f = Flag.Zero -> zero
                                   [] f = Flag.Overflow -> overflow
                                   [] f = Flag.Sign -> sign] ]

\* A faulty variant of checkPort: the last port is refused.
checkPort_belowMax(port) ==
  IF Lt(port, 0) \/ Ge(port, MAX_PORT) THEN ThrowsWith(InvalidPortError, port) ELSE Returns(port)

checkPort(port) ==
  IF Lt(port, 0) \/ Gt(port, MAX_PORT) THEN ThrowsWith(InvalidPortError, port) ELSE Returns(port)

(***************************************************************************)
(* The draft of a step: the three arguments being edited, and the error    *)
(* thrown so far.  Once an error is thrown nothing more is executed.       *)
(***************************************************************************)
\* const name = value, then the statements that follow it.
Bind(value, body(_)) == body(value)

Draft(args) ==
  [ memoryData |-> args.memoryData,
    cpuRegisters |-> args.cpuRegisters,
    signals |-> args.signals,
    error |-> NoError,
    argument |-> undefined ]

Thrown(d) == d.error # NoError

\* The draft after a call that may throw: res is what the call gave.
Raise(d, res) ==
  IF ~Thrown(d) /\ res.error # NoError THEN [d EXCEPT !.error = res.error, !.argument = res.value] ELSE d

loadFromMemory(d, address) ==
  IF address \in DOMAIN d.memoryData THEN d.memoryData[address] ELSE undefined

storeToMemory(d, address, machineCode) ==
  IF Thrown(d) THEN d
  ELSE IF address \in DOMAIN d.memoryData
  THEN [d EXCEPT !.memoryData[address] = machineCode]
  ELSE [d EXCEPT !.memoryData = (address :> machineCode) @@ @]

getGpr(d, register) ==
  IF register \in DOMAIN d.cpuRegisters.gpr THEN d.cpuRegisters.gpr[register] ELSE undefined

setGpr(d, register, value) ==
  IF Thrown(d) THEN d
  ELSE IF register \in DOMAIN d.cpuRegisters.gpr
  THEN [d EXCEPT !.cpuRegisters.gpr[register] = value]
  ELSE [d EXCEPT !.cpuRegisters.gpr = (register :> value) @@ @]

getIp(d) == d.cpuRegisters.ip
getNextIp(d, by) == Plus(d.cpuRegisters.ip, by)
setIp(d, address) ==
  IF Thrown(d) THEN d ELSE [d EXCEPT !.cpuRegisters.ip = address]

incIp(d, by) ==
  Bind(checkIp(Plus(d.cpuRegisters.ip, by)), LAMBDA address :
    IF Thrown(d) THEN d
    ELSE IF address.error # NoError THEN Raise(d, address)
    ELSE setIp(d, address.value))

\* A faulty variant of push: sp is decremented before the value is stored.
push_decrementingFirst(d, value) ==
  Bind(checkSp(d.cpuRegisters.sp - 1), LAMBDA address :
    IF Thrown(d) THEN d
    ELSE IF address.error # NoError THEN Raise(d, address)
    ELSE storeToMemory([d EXCEPT !.cpuRegisters.sp = address.value],
                       address.value, value))

push(d, value) ==
  Bind(storeToMemory(d, d.cpuRegisters.sp, value), LAMBDA d1 :
  Bind(checkSp(d1.cpuRegisters.sp - 1), LAMBDA address :
    IF Thrown(d1) THEN d1
    ELSE IF address.error # NoError THEN Raise(d1, address)
    ELSE [d1 EXCEPT !.cpuRegisters.sp = address.value]))

\* A faulty variant of pop: sp is incremented without checkSp.
pop_unchecked(d) ==
  Bind(IF Thrown(d) THEN d ELSE [d EXCEPT !.cpuRegisters.sp = @ + 1], LAMBDA d1 :
    [draft |-> d1, value |-> loadFromMemory(d1, d1.cpuRegisters.sp)])

\* pop gives the draft and the value popped.
pop(d) ==
  Bind(checkSp(d.cpuRegisters.sp + 1), LAMBDA address :
  Bind(IF Thrown(d) THEN d
       ELSE IF address.error # NoError THEN Raise(d, address)
       ELSE [d EXCEPT !.cpuRegisters.sp = address.value], LAMBDA d1 :
    [draft |-> d1, value |-> loadFromMemory(d1, d1.cpuRegisters.sp)]))

getSr(d) == d.cpuRegisters.sr
\* A faulty variant of setSr: the status register is replaced by flags, and
\* the entries flags does not have are off.
setSr_replacing(d, flags) ==
  IF Thrown(d) THEN d
  ELSE [d EXCEPT !.cpuRegisters.sr =
          [f \in DOMAIN @ |-> IF f \in DOMAIN flags THEN flags[f] ELSE FlagStatus.Off]]

\* Object.assign(cpuRegisters.sr, flags): the entries flags has, and no others.
setSr(d, flags) ==
  IF Thrown(d) THEN d
  ELSE [d EXCEPT !.cpuRegisters.sr =
          [f \in DOMAIN @ |-> IF f \in DOMAIN flags THEN flags[f] ELSE @[f]]]
isFlagOn(d, flag) == d.cpuRegisters.sr[flag] = FlagStatus.On
setFlag(d, flag, flagStatus) ==
  IF Thrown(d) THEN d ELSE [d EXCEPT !.cpuRegisters.sr[flag] = flagStatus]

\* operate gives the draft with the flags set and the final result; res is
\* what operation(...operands) gave and previousValue the last operand.
operate(d, res, previousValue) ==
  IF Thrown(d) THEN [draft |-> d, value |-> undefined]
  ELSE IF res.error # NoError THEN [draft |-> Raise(d, res), value |-> undefined]
  ELSE Bind(checkOperationResult(res.value, previousValue), LAMBDA checked :
         [draft |-> setSr(d, checked.flags), value |-> checked.finalResult])

getSignals(d) == d.signals
setRequiredInputDataPort(d, port) ==
  IF Thrown(d) THEN d ELSE [d EXCEPT !.signals.output.requiredInputDataPort = port]
setOutputDataSignal(d, content, port) ==
  IF Thrown(d) THEN d
  ELSE [d EXCEPT !.signals.output.data = [content |-> content, port |-> port]]
setHaltedSignal(d) ==
  IF Thrown(d) THEN d ELSE [d EXCEPT !.signals.output.halted = TRUE]
getInterruptSignal(d) == d.signals.input.interrupt
setCloseWindowsSignal(d) ==
  IF Thrown(d) THEN d ELSE [d EXCEPT !.signals.output.closeWindows = TRUE]

(***************************************************************************)
(* step: the operand fetches and the cases of its switch.  Each takes the  *)
(* draft and gives the draft after the case.                               *)
(***************************************************************************)
\* loadFromMemory(incIp())
nextByte(d) ==
  Bind(incIp(d, 1), LAMBDA d1 :
    [draft |-> d1, value |-> loadFromMemory(d1, getIp(d1))])

\* checkGpr(loadFromMemory(incIp()))
nextGpr(d) ==
  Bind(nextByte(d), LAMBDA byte :
    [draft |-> Raise(byte.draft, checkGpr(byte.value)), value |-> byte.value])

\* A faulty variant of case_HALT: ip moves past the opcode.
case_HALT_advancing(d) == incIp(setHaltedSignal(d), 1)

case_HALT(d) == setHaltedSignal(d)

\* operation(...operands) for the operation of the given name.
apply2(operation, n1, n2) ==
  CASE operation = "add" -> add(n1, n2)
    [] operation = "substract" -> substract(n1, n2)
    [] operation = "multiply" -> multiply(n1, n2)
    [] operation = "divide" -> divide(n1, n2)
    [] operation = "modulo" -> modulo(n1, n2)
    [] operation = "and" -> and(n1, n2)
    [] operation = "or" -> or(n1, n2)
    [] operation = "xor" -> xor(n1, n2)

apply1(operation, n) ==
  CASE operation = "increase" -> increase(n)
    [] operation = "decrease" -> decrease(n)
    [] operation = "not" -> not(n)
    [] operation = "rol" -> rol(n)
    [] operation = "ror" -> ror(n)
    [] operation = "shl" -> shl(n)
    [] operation = "shr" -> shr(n)

\* ADD, SUB, MUL, DIV, MOD, AND, OR, XOR of a register with a register.
case_REG_REG(d, operation) ==
  Bind(nextGpr(d), LAMBDA destReg :
  Bind(nextGpr(destReg.draft), LAMBDA srcReg :
  Bind(operate(srcReg.draft,
               apply2(operation, getGpr(srcReg.draft, srcReg.value),
                                 getGpr(srcReg.draft, destReg.value)),
               getGpr(srcReg.draft, destReg.value)), LAMBDA result :
    incIp(setGpr(result.draft, destReg.value, result.value), 1))))

\* INC, DEC, NOT, ROL, ROR, SHL, SHR of a register.
case_REG(d, operation) ==
  Bind(nextGpr(d), LAMBDA destReg :
  Bind(operate(destReg.draft,
               apply1(operation, getGpr(destReg.draft, destReg.value)),
               getGpr(destReg.draft, destReg.value)), LAMBDA result :
    incIp(setGpr(result.draft, destReg.value, result.value), 1)))

\* ADD, SUB, MUL, DIV, MOD, AND, OR, XOR of a register with a number.
case_REG_NUM(d, operation) ==
  Bind(nextGpr(d), LAMBDA destReg :
  Bind(nextByte(destReg.draft), LAMBDA value :
  Bind(operate(value.draft,
               apply2(operation, value.value, getGpr(value.draft, destReg.value)),
               getGpr(value.draft, destReg.value)), LAMBDA result :
    incIp(setGpr(result.draft, destReg.value, result.value), 1))))

\* A faulty variant of case_JUMP: the distance is counted from the next
\* instruction.
case_JUMP_fromNextInstruction(d, taken) ==
  Bind(sign8(loadFromMemory(d, getNextIp(d, 1))), LAMBDA distance :
    incIp(d, IF taken THEN distance + 2 ELSE 2))

\* JMP, JZ, JNZ, JS, JNS, JO, JNO: taken says whether the condition holds.
case_JUMP(d, taken) ==
  Bind(sign8(loadFromMemory(d, getNextIp(d, 1))), LAMBDA distance :
    incIp(d, IF taken THEN distance ELSE 2))

case_MOV_NUM_TO_REG(d) ==
  Bind(nextGpr(d), LAMBDA destReg :
  Bind(nextByte(destReg.draft), LAMBDA value :
    incIp(setGpr(value.draft, destReg.value, value.value), 1)))

case_MOV_ADDR_TO_REG(d) ==
  Bind(nextGpr(d), LAMBDA destReg :
  Bind(nextByte(destReg.draft), LAMBDA address :
    incIp(setGpr(address.draft, destReg.value,
                 loadFromMemory(address.draft, address.value)), 1)))

case_MOV_REG_TO_ADDR(d) ==
  Bind(nextByte(d), LAMBDA address :
  Bind(nextGpr(address.draft), LAMBDA srcReg :
    incIp(storeToMemory(srcReg.draft, address.value,
                        getGpr(srcReg.draft, srcReg.value)), 1)))

case_MOV_REG_ADDR_TO_REG(d) ==
  Bind(nextGpr(d), LAMBDA destReg :
  Bind(nextGpr(destReg.draft), LAMBDA srcReg :
    incIp(setGpr(srcReg.draft, destReg.value,
                 loadFromMemory(srcReg.draft, getGpr(srcReg.draft, srcReg.value))), 1)))

case_MOV_REG_TO_REG_ADDR(d) ==
  Bind(nextGpr(d), LAMBDA destReg :
  Bind(nextGpr(destReg.draft), LAMBDA srcReg :
    incIp(storeToMemory(srcReg.draft, getGpr(srcReg.draft, destReg.value),
                        getGpr(srcReg.draft, srcReg.value)), 1)))

case_CMP_REG_WITH_REG(d) ==
  Bind(nextGpr(d), LAMBDA reg1 :
  Bind(nextGpr(reg1.draft), LAMBDA reg2 :
  Bind(checkOperationResult(
         getGpr(reg2.draft, reg1.value) - getGpr(reg2.draft, reg2.value),
         getGpr(reg2.draft, reg1.value)), LAMBDA checked :
    incIp(setSr(reg2.draft, checked.flags), 1))))

\* A faulty variant of case_CMP_REG_WITH_NUM: the difference is written back.
case_CMP_writingRegister(d) == case_REG_NUM(d, "substract")

case_CMP_REG_WITH_NUM(d) ==
  Bind(nextGpr(d), LAMBDA reg :
  Bind(nextByte(reg.draft), LAMBDA value :
  Bind(checkOperationResult(
         getGpr(value.draft, reg.value) - value.value,
         getGpr(value.draft, reg.value)), LAMBDA checked :
    incIp(setSr(value.draft, checked.flags), 1))))

case_CMP_REG_WITH_ADDR(d) ==
  Bind(nextGpr(d), LAMBDA reg :
  Bind(nextByte(reg.draft), LAMBDA address :
  Bind(checkOperationResult(
         getGpr(address.draft, reg.value) - loadFromMemory(address.draft, address.value),
         getGpr(address.draft, reg.value)), LAMBDA checked :
    incIp(setSr(address.draft, checked.flags), 1))))

case_PUSH_FROM_REG(d) ==
  Bind(nextGpr(d), LAMBDA srcReg :
    incIp(push(srcReg.draft, getGpr(srcReg.draft, srcReg.value)), 1))

case_POP_TO_REG(d) ==
  Bind(nextGpr(d), LAMBDA destReg :
  Bind(pop(destReg.draft), LAMBDA popped :
    incIp(setGpr(popped.draft, destReg.value, popped.value), 1)))

case_PUSHF(d) == incIp(push(d, getSrValue(getSr(d))), 1)

case_POPF(d) ==
  Bind(pop(d), LAMBDA popped :
    incIp(setSr(popped.draft, getSrFrom(popped.value)), 1))

\* A faulty variant of case_CALL_ADDR: the address pushed is that of the
\* operand byte.
case_CALL_pushingOperand(d) ==
  Bind(loadFromMemory(d, getNextIp(d, 1)), LAMBDA address :
    setIp(push(d, getNextIp(d, 1)), address))

case_CALL_ADDR(d) ==
  Bind(loadFromMemory(d, getNextIp(d, 1)), LAMBDA address :
    setIp(push(d, getNextIp(d, 2)), address))

case_RET(d) ==
  Bind(pop(d), LAMBDA popped : setIp(popped.draft, popped.value))

\* A faulty variant of case_INT_ADDR: the software form jumps to its operand.
case_INT_ADDR_direct(d, trap) ==
  IF trap
  THEN Bind(push(d, getIp(d)), LAMBDA d1 :
         setIp(d1, loadFromMemory(d1, HARDWARE_INTERRUPT_VECTOR_ADDR)))
  ELSE Bind(loadFromMemory(d, getNextIp(d, 1)), LAMBDA address :
       Bind(push(d, getNextIp(d, 2)), LAMBDA d1 :
         setIp(d1, address)))

\* A faulty variant of case_INT_ADDR: the trap turns the Interrupt flag off.
case_INT_ADDR_maskingTrap(d, trap) ==
  IF trap
  THEN Bind(push(d, getIp(d)), LAMBDA d1 :
         setFlag(setIp(d1, loadFromMemory(d1, HARDWARE_INTERRUPT_VECTOR_ADDR)),
                 Flag.Interrupt, FlagStatus.Off))
  ELSE Bind(loadFromMemory(d, getNextIp(d, 1)), LAMBDA address :
       Bind(push(d, getNextIp(d, 2)), LAMBDA d1 :
         setIp(d1, loadFromMemory(d1, address))))

case_INT_ADDR(d, trap) ==
  IF trap
  THEN Bind(push(d, getIp(d)), LAMBDA d1 :
         setIp(d1, loadFromMemory(d1, HARDWARE_INTERRUPT_VECTOR_ADDR)))
  ELSE Bind(loadFromMemory(d, getNextIp(d, 1)), LAMBDA address :
       Bind(push(d, getNextIp(d, 2)), LAMBDA d1 :
         setIp(d1, loadFromMemory(d1, address))))

\* A faulty variant of case_IRET: the return is to the byte after the one
\* popped.
case_IRET_pastReturn(d) ==
  Bind(pop(d), LAMBDA popped : setIp(popped.draft, Plus(popped.value, 1)))

case_IRET(d) ==
  Bind(pop(d), LAMBDA popped : setIp(popped.draft, popped.value))

\* A faulty variant of case_IN_FROM_PORT_TO_AL: the content is tested with
\* !inputData.content, so that a content of 0 counts as no content.
case_IN_falsyContent(d) ==
  Bind(getSignals(d).input.data, LAMBDA inputData :
  Bind(checkPort(loadFromMemory(d, getNextIp(d, 1))), LAMBDA requiredInputDataPort :
    IF inputData.content = null \/ inputData.content = 0
         \/ inputData.port # requiredInputDataPort.value
    THEN setRequiredInputDataPort(Raise(d, requiredInputDataPort),
                                  requiredInputDataPort.value)
    ELSE incIp(setGpr(Raise(d, requiredInputDataPort),
                      GeneralPurposeRegister.AL, inputData.content), 2)))

\* A faulty variant of case_IN_FROM_PORT_TO_AL: the byte taken is removed from
\* the input side of the bus.
case_IN_consumingInput(d) ==
  Bind(getSignals(d).input.data, LAMBDA inputData :
  Bind(checkPort(loadFromMemory(d, getNextIp(d, 1))), LAMBDA requiredInputDataPort :
    IF inputData.content = null \/ inputData.port # requiredInputDataPort.value
    THEN setRequiredInputDataPort(Raise(d, requiredInputDataPort),
                                  requiredInputDataPort.value)
    ELSE incIp(setGpr([Raise(d, requiredInputDataPort) EXCEPT
                         !.signals.input.data.content = null],
                      GeneralPurposeRegister.AL, inputData.content), 2)))

case_IN_FROM_PORT_TO_AL(d) ==
  Bind(getSignals(d).input.data, LAMBDA inputData :
  Bind(checkPort(loadFromMemory(d, getNextIp(d, 1))), LAMBDA requiredInputDataPort :
    IF inputData.content = null \/ inputData.port # requiredInputDataPort.value
    THEN setRequiredInputDataPort(Raise(d, requiredInputDataPort),
                                  requiredInputDataPort.value)
    ELSE incIp(setGpr(Raise(d, requiredInputDataPort),
                      GeneralPurposeRegister.AL, inputData.content), 2)))

case_OUT_FROM_AL_TO_PORT(d) ==
  Bind(getGpr(d, GeneralPurposeRegister.AL), LAMBDA dataContent :
  Bind(nextByte(d), LAMBDA byte :
  Bind(checkPort(byte.value), LAMBDA dataPort :
    incIp(setOutputDataSignal(Raise(byte.draft, dataPort), dataContent, dataPort.value),
          1))))

case_STI(d) == incIp(setFlag(d, Flag.Interrupt, FlagStatus.On), 1)
case_CLI(d) == incIp(setFlag(d, Flag.Interrupt, FlagStatus.Off), 1)
case_CLO(d) == incIp(setCloseWindowsSignal(d), 1)
case_NOP(d) == incIp(d, 1)
\* A faulty variant of shouldTrapHardwareInterrupt: the Interrupt flag is
\* not consulted.
shouldTrap_ignoringFlag(d) == getInterruptSignal(d)

shouldTrapHardwareInterrupt(d) == getInterruptSignal(d) /\ isFlagOn(d, Flag.Interrupt)

\* The opcode step dispatches on.
fetchOpcode(d) ==
  IF shouldTrapHardwareInterrupt(d) THEN Opcode.INT_ADDR ELSE loadFromMemory(d, getIp(d))

\* A faulty variant of case_default: the error is constructed with the
\* address of the opcode.
case_default_carryingIp(d) == Raise(d, ThrowsWith(InvalidOpcodeError, getIp(d)))

case_default(d) == Raise(d, ThrowsWith(InvalidOpcodeError, fetchOpcode(d)))

\* The recipe step hands to createNextState: the switch on the opcode.
recipe(d) ==
  LET opcode == fetchOpcode(d)
  IN CASE opcode = Opcode.END \/ opcode = Opcode.HALT -> case_HALT(d)
       [] opcode = Opcode.ADD_REG_TO_REG -> case_REG_REG(d, "add")
       [] opcode = Opcode.SUB_REG_FROM_REG -> case_REG_REG(d, "substract")
       [] opcode = Opcode.MUL_REG_BY_REG -> case_REG_REG(d, "multiply")
       [] opcode = Opcode.DIV_REG_BY_REG -> case_REG_REG(d, "divide")
       [] opcode = Opcode.INC_REG -> case_REG(d, "increase")
       [] opcode = Opcode.DEC_REG -> case_REG(d, "decrease")
       [] opcode = Opcode.MOD_REG_BY_REG -> case_REG_REG(d, "modulo")
       [] opcode = Opcode.AND_REG_WITH_REG -> case_REG_REG(d, "and")
       [] opcode = Opcode.OR_REG_WITH_REG -> case_REG_REG(d, "or")
       [] opcode = Opcode.XOR_REG_WITH_REG -> case_REG_REG(d, "xor")
       [] opcode = Opcode.NOT_REG -> case_REG(d, "not")
       [] opcode = Opcode.ROL_REG -> case_REG(d, "rol")
       [] opcode = Opcode.ROR_REG -> case_REG(d, "ror")
       [] opcode = Opcode.SHL_REG -> case_REG(d, "shl")
       [] opcode = Opcode.SHR_REG -> case_REG(d, "shr")
       [] opcode = Opcode.ADD_NUM_TO_REG -> case_REG_NUM(d, "add")
       [] opcode = Opcode.SUB_NUM_FROM_REG -> case_REG_NUM(d, "substract")
       [] opcode = Opcode.MUL_REG_BY_NUM -> case_REG_NUM(d, "multiply")
       [] opcode = Opcode.DIV_REG_BY_NUM -> case_REG_NUM(d, "divide")
       [] opcode = Opcode.MOD_REG_BY_NUM -> case_REG_NUM(d, "modulo")
       [] opcode = Opcode.AND_REG_WITH_NUM -> case_REG_NUM(d, "and")
       [] opcode = Opcode.OR_REG_WITH_NUM -> case_REG_NUM(d, "or")
       [] opcode = Opcode.XOR_REG_WITH_NUM -> case_REG_NUM(d, "xor")
       [] opcode = Opcode.JMP -> case_JUMP(d, TRUE)
       [] opcode = Opcode.JZ -> case_JUMP(d, isFlagOn(d, Flag.Zero))
       [] opcode = Opcode.JNZ -> case_JUMP(d, ~isFlagOn(d, Flag.Zero))
       [] opcode = Opcode.JS -> case_JUMP(d, isFlagOn(d, Flag.Sign))
       [] opcode = Opcode.JNS -> case_JUMP(d, ~isFlagOn(d, Flag.Sign))
       [] opcode = Opcode.JO -> case_JUMP(d, isFlagOn(d, Flag.Overflow))
       [] opcode = Opcode.JNO -> case_JUMP(d, ~isFlagOn(d, Flag.Overflow))
       [] opcode = Opcode.MOV_NUM_TO_REG -> case_MOV_NUM_TO_REG(d)
       [] opcode = Opcode.MOV_ADDR_TO_REG -> case_MOV_ADDR_TO_REG(d)
       [] opcode = Opcode.MOV_REG_TO_ADDR -> case_MOV_REG_TO_ADDR(d)
       [] opcode = Opcode.MOV_REG_ADDR_TO_REG -> case_MOV_REG_ADDR_TO_REG(d)
       [] opcode = Opcode.MOV_REG_TO_REG_ADDR -> case_MOV_REG_TO_REG_ADDR(d)
       [] opcode = Opcode.CMP_REG_WITH_REG -> case_CMP_REG_WITH_REG(d)
       [] opcode = Opcode.CMP_REG_WITH_NUM -> case_CMP_REG_WITH_NUM(d)
       [] opcode = Opcode.CMP_REG_WITH_ADDR -> case_CMP_REG_WITH_ADDR(d)
       [] opcode = Opcode.PUSH_FROM_REG -> case_PUSH_FROM_REG(d)
       [] opcode = Opcode.POP_TO_REG -> case_POP_TO_REG(d)
       [] opcode = Opcode.PUSHF -> case_PUSHF(d)
       [] opcode = Opcode.POPF -> case_POPF(d)
       [] opcode = Opcode.CALL_ADDR -> case_CALL_ADDR(d)
       [] opcode = Opcode.RET -> case_RET(d)
       [] opcode = Opcode.INT_ADDR -> case_INT_ADDR(d, shouldTrapHardwareInterrupt(d))
       [] opcode = Opcode.IRET -> case_IRET(d)
       [] opcode = Opcode.IN_FROM_PORT_TO_AL -> case_IN_FROM_PORT_TO_AL(d)
       [] opcode = Opcode.OUT_FROM_AL_TO_PORT -> case_OUT_FROM_AL_TO_PORT(d)
       [] opcode = Opcode.STI -> case_STI(d)
       [] opcode = Opcode.CLI -> case_CLI(d)
       [] opcode = Opcode.CLO -> case_CLO(d)
       [] opcode = Opcode.NOP -> case_NOP(d)
       [] OTHER -> case_default(d)

\* A faulty variant of createNextState: the draft is returned as it was when
\* the recipe threw.
createNextState_keepingDraft(args, d) == d

\* createNextState(args, recipe): the edited draft when the recipe returns;
\* when it throws the draft is dropped and the caller keeps args.
createNextState(args, d) ==
  IF Thrown(d)
  THEN [ memoryData |-> args.memoryData, cpuRegisters |-> args.cpuRegisters,
         signals |-> args.signals, error |-> d.error,
         argument |-> d.argument ]
  ELSE d

step(args) == createNextState(args, recipe(Draft(args)))

(***************************************************************************)
(* The parser.  A token is its type and its value; the value is the        *)
(* sequence of its characters, so that the tests on it are computed.       *)
(***************************************************************************)
TokenType ==
  [ Comma |-> "COMMA", Digits |-> "DIGITS", Register |-> "REGISTER",
    Address |-> "ADDRESS", String |-> "STRING", Unknown |-> "UNKNOWN" ]

OperandType ==
  [ Number |-> "NUMBER", Register |-> "REGISTER", Address |-> "ADDRESS",
    RegisterAddress |-> "REGISTER_ADDRESS", String |-> "STRING", Label |-> "LABEL" ]

\* tokens[index] where there is no such token.
NoToken == [type |-> "undefined", value |-> <<>>]

\* The characters of a word, joined: the name a table is looked up with.
RECURSIVE Joined(_)
Joined(value) ==
  IF value = <<>> THEN "" ELSE Joined(SubSeq(value, 1, Len(value) - 1)) \o value[Len(value)]

\* common/constants: the mnemonics by their number of operands.
MnemonicsWithNoOperand ==
  { "END", "HALT", "PUSHF", "POPF", "RET", "IRET", "STI", "CLI", "CLO", "NOP" }
MnemonicsWithOneOperand ==
  { "INC", "DEC", "NOT", "ROL", "ROR", "SHL", "SHR", "JMP", "JZ", "JNZ", "JS",
    "JNS", "JO", "JNO", "PUSH", "POP", "CALL", "INT", "IN", "OUT", "ORG", "DB" }
MnemonicsWithTwoOperands ==
  { "ADD", "SUB", "MUL", "DIV", "MOD", "AND", "OR", "XOR", "MOV", "CMP" }
Mnemonic == MnemonicsWithNoOperand \cup MnemonicsWithOneOperand \cup MnemonicsWithTwoOperands

MNEMONIC_TO_OPERANDS_COUNT_MAP(mnemonic) ==
  IF mnemonic \in MnemonicsWithNoOperand THEN 0
  ELSE IF mnemonic \in MnemonicsWithOneOperand THEN 1 ELSE 2

\* Opcode[name], undefined where the table has no such name.
OpcodeNamed(name) == IF name \in DOMAIN Opcode THEN Opcode[name] ELSE undefined

\* Register[name]
Register == [AL |-> 0, BL |-> 1, CL |-> 2, DL |-> 3]

HexDigits ==
  << "0", "1", "2", "3", "4", "5", "6", "7", "8", "9", "A", "B", "C", "D", "E", "F" >>

Letters ==
  { "A", "B", "C", "D", "E", "F", "G", "H", "I", "J", "K", "L", "M",
    "N", "O", "P", "Q", "R", "S", "T", "U", "V", "W", "X", "Y", "Z" }

IsHexDigit(char) == \E i \in 1..Len(HexDigits) : HexDigits[i] = char

\* utils: hexToDec reads the value as a number in base 16.
RECURSIVE hexToDec(_)
hexToDec(value) ==
  IF value = <<>> \/ \E i \in 1..Len(value) : ~IsHexDigit(value[i]) THEN NaN
  ELSE IF Len(value) = 1 THEN (CHOOSE i \in 1..Len(HexDigits) : HexDigits[i] = value[1]) - 1
  ELSE 16 * hexToDec(SubSeq(value, 1, Len(value) - 1))
         + hexToDec(<<value[Len(value)]>>)

Alphabet ==
  << "A", "B", "C", "D", "E", "F", "G", "H", "I", "J", "K", "L", "M",
     "N", "O", "P", "Q", "R", "S", "T", "U", "V", "W", "X", "Y", "Z" >>

\* utils: stringToASCII gives the codes of the characters (of letters, here).
stringToASCII(value) ==
  [i \in 1..Len(value) |-> 64 + (CHOOSE n \in 1..Len(Alphabet) : Alphabet[n] = value[i])]

\* value.endsWith(':')
endsWithColon(value) == value # <<>> /\ value[Len(value)] = ":"

\* /^[A-Z_]/
LABEL_START(value) == value # <<>> /\ (value[1] \in Letters \/ value[1] = "_")

\* /^[\dA-F]+$/
NUMBER(value) == value # <<>> /\ \A i \in 1..Len(value) : IsHexDigit(value[i])

\* /^[A-D]L$/
REGISTER(value) == Len(value) = 2 /\ value[1] \in {"A", "B", "C", "D"} /\ value[2] = "L"

(***************************************************************************)
(* The errors of the assembler, with what they are constructed with.       *)
(***************************************************************************)
NoAssemblerError == [name |-> "None"]
MissingEndError == [name |-> "MissingEndError"]
InvalidLabelError(token) == [name |-> "InvalidLabelError", token |-> token]
StatementError(token, hasLabel) ==
  [name |-> "StatementError", token |-> token, hasLabel |-> hasLabel]
AddressError(token) == [name |-> "AddressError", token |-> token]
InvalidNumberError(token) == [name |-> "InvalidNumberError", token |-> token]
OperandTypeError(token, expectedTypes) ==
  [name |-> "OperandTypeError", token |-> token, expectedTypes |-> expectedTypes]
MissingCommaError(token) == [name |-> "MissingCommaError", token |-> token]

\* What a function of the parser gives: what it returns, or what it throws.
Parsed(v) == [error |-> NoAssemblerError, value |-> v]
Failed(e) == [error |-> e, value |-> undefined]

\* tokens[index], the index counted from 0.
tokenAt(tokens, index) == IF index + 1 \in DOMAIN tokens THEN tokens[index + 1] ELSE NoToken

createLabel(token) ==
  [identifier |-> SubSeq(token.value, 1, Len(token.value) - 1), token |-> token]

createInstruction(token) == [opcode |-> null, token |-> token]

createOperand(type, token) ==
  [ type |-> type,
    value |-> CASE type \in {OperandType.Number, OperandType.Address} ->
                     <<hexToDec(token.value)>>
                [] type \in {OperandType.Register, OperandType.RegisterAddress} ->
                     <<Register[Joined(token.value)]>>
                [] type = OperandType.String -> stringToASCII(token.value)
                [] type = OperandType.Label -> <<>>,
    token |-> token ]

\* The value of an operand is kept as the bytes it contributes: one for a
\* number, none for undefined, the codes of a string.
createStatement(label, instruction, operands) ==
  [ label |-> label,
    instruction |-> instruction,
    operands |-> operands,
    machineCodes |->
      (IF instruction.opcode # null THEN <<instruction.opcode>> ELSE <<>>)
        \o (IF Len(operands) >= 1 THEN operands[1].value ELSE <<>>)
        \o (IF Len(operands) >= 2 THEN operands[2].value ELSE <<>>) ]

validateLabel(token) ==
  IF ~LABEL_START(token.value) THEN InvalidLabelError(token) ELSE NoAssemblerError

\* The label at tokens[index], or NoLabel for null.
NoLabel == [identifier |-> <<>>, token |-> NoToken]

parseLabel(tokens, index) ==
  Bind(tokenAt(tokens, index), LAMBDA token :
    IF ~endsWithColon(token.value) THEN Parsed(NoLabel)
    ELSE IF validateLabel(token) # NoAssemblerError THEN Failed(validateLabel(token))
    ELSE Parsed(createLabel(token)))

\* A faulty variant of validateNumber: three hex digits pass.
validateNumber_threeDigits(token) ==
  IF Gt(hexToDec(token.value), 4095) THEN InvalidNumberError(token) ELSE NoAssemblerError

validateNumber(token) ==
  IF Gt(hexToDec(token.value), 255) THEN InvalidNumberError(token) ELSE NoAssemblerError

isExpected(expectedTypes, type) == \E i \in 1..Len(expectedTypes) : expectedTypes[i] = type

\* A Number or an Address out of a token whose value is a number.
numberOperand(type, token) ==
  IF validateNumber(token) # NoAssemblerError THEN Failed(validateNumber(token))
  ELSE Parsed(createOperand(type, token))

parseSingleOperand(tokens, index, expectedTypes) ==
  Bind(tokenAt(tokens, index), LAMBDA token :
    IF token = NoToken THEN Failed(MissingEndError)
    ELSE IF token.type = TokenType.Digits /\ isExpected(expectedTypes, OperandType.Number)
    THEN numberOperand(OperandType.Number, token)
    ELSE IF token.type = TokenType.Register /\ isExpected(expectedTypes, OperandType.Register)
    THEN Parsed(createOperand(OperandType.Register, token))
    ELSE IF /\ token.type = TokenType.Address
            /\ \/ isExpected(expectedTypes, OperandType.Address)
               \/ isExpected(expectedTypes, OperandType.RegisterAddress)
    THEN IF NUMBER(token.value) THEN numberOperand(OperandType.Address, token)
         ELSE IF REGISTER(token.value)
         THEN Parsed(createOperand(OperandType.RegisterAddress, token))
         ELSE Failed(AddressError(token))
    ELSE IF token.type = TokenType.String /\ isExpected(expectedTypes, OperandType.String)
    THEN Parsed(createOperand(OperandType.String, token))
    ELSE IF /\ token.type = TokenType.Unknown
            /\ isExpected(expectedTypes, OperandType.Number)
            /\ NUMBER(token.value)
    THEN numberOperand(OperandType.Number, token)
    ELSE IF token.type = TokenType.Unknown /\ isExpected(expectedTypes, OperandType.Label)
    THEN IF validateLabel(token) # NoAssemblerError THEN Failed(validateLabel(token))
         ELSE Parsed(createOperand(OperandType.Label, token))
    ELSE Failed(OperandTypeError(token, expectedTypes)))

\* A faulty variant of checkComma: any token passes for the comma.
checkComma_anyToken(token) ==
  IF token = NoToken THEN MissingEndError ELSE NoAssemblerError

checkComma(token) ==
  IF token = NoToken THEN MissingEndError
  ELSE IF token.type # TokenType.Comma THEN MissingCommaError(token)
  ELSE NoAssemblerError

\* A faulty variant of secondOperandError: the first operand's type is not
\* looked at.
secondOperandError_anyFirst(firstOperandType, secondOperandToken) ==
  OperandTypeError(secondOperandToken,
    <<OperandType.Number, OperandType.Address, OperandType.RegisterAddress>>)

\* The callback MOV passes for the second operand: what it throws.
secondOperandError(firstOperandType, secondOperandToken) ==
  IF firstOperandType = OperandType.Register
  THEN OperandTypeError(secondOperandToken,
         <<OperandType.Number, OperandType.Address, OperandType.RegisterAddress>>)
  ELSE OperandTypeError(secondOperandToken, <<OperandType.Register>>)

\* callback says whether the last argument is the callback of MOV.
parseDoubleOperands(tokens, index, firstExpectedTypes, secondExpectedTypes, callback) ==
  Bind(parseSingleOperand(tokens, index, firstExpectedTypes), LAMBDA firstOperand :
    IF firstOperand.error # NoAssemblerError THEN firstOperand
    ELSE IF checkComma(tokenAt(tokens, index + 1)) # NoAssemblerError
    THEN Failed(checkComma(tokenAt(tokens, index + 1)))
    ELSE Bind(parseSingleOperand(tokens, index + 2, secondExpectedTypes),
              LAMBDA secondOperand :
      IF secondOperand.error = NoAssemblerError
      THEN Parsed(<<firstOperand.value, secondOperand.value>>)
      ELSE IF /\ secondOperand.error.name = "OperandTypeError"
              /\ callback
              /\ firstOperand.value.type \in
                   {OperandType.Register, OperandType.Address, OperandType.RegisterAddress}
      THEN Failed(secondOperandError(firstOperand.value.type, tokenAt(tokens, index + 2)))
      ELSE secondOperand))

\* The opcode and the expected types of a mnemonic with one operand.
oneOperandOpcode(mnemonic) ==
  CASE mnemonic = "INC" -> Opcode.INC_REG
    [] mnemonic = "DEC" -> Opcode.DEC_REG
    [] mnemonic = "NOT" -> Opcode.NOT_REG
    [] mnemonic = "ROL" -> Opcode.ROL_REG
    [] mnemonic = "ROR" -> Opcode.ROR_REG
    [] mnemonic = "SHL" -> Opcode.SHL_REG
    [] mnemonic = "SHR" -> Opcode.SHR_REG
    [] mnemonic \in {"JMP", "JZ", "JNZ", "JS", "JNS", "JO", "JNO"} -> Opcode[mnemonic]
    [] mnemonic = "PUSH" -> Opcode.PUSH_FROM_REG
    [] mnemonic = "POP" -> Opcode.POP_TO_REG
    [] mnemonic = "CALL" -> OpcodeNamed("CALL_ADDR_NUM")
    [] mnemonic = "INT" -> OpcodeNamed("INT_ADDR_NUM")
    [] mnemonic = "IN" -> Opcode.IN_FROM_PORT_TO_AL
    [] mnemonic = "OUT" -> Opcode.OUT_FROM_AL_TO_PORT
    [] mnemonic \in {"ORG", "DB"} -> null

oneOperandTypes(mnemonic) ==
  CASE mnemonic \in {"INC", "DEC", "NOT", "ROL", "ROR", "SHL", "SHR", "PUSH", "POP"} ->
         <<OperandType.Register>>
    [] mnemonic \in {"JMP", "JZ", "JNZ", "JS", "JNS", "JO", "JNO"} -> <<OperandType.Label>>
    [] mnemonic \in {"CALL", "INT", "IN", "OUT", "ORG"} -> <<OperandType.Number>>
    [] mnemonic = "DB" -> <<OperandType.Number, OperandType.String>>

\* The opcode of ADD .. XOR by the type of the second operand; null where
\* the switch has no case for it.
arithmeticOpcode(mnemonic, secondType) ==
  IF secondType = OperandType.Register
  THEN CASE mnemonic = "ADD" -> Opcode.ADD_REG_TO_REG
         [] mnemonic = "SUB" -> Opcode.SUB_REG_FROM_REG
         [] mnemonic = "MUL" -> Opcode.MUL_REG_BY_REG
         [] mnemonic = "DIV" -> Opcode.DIV_REG_BY_REG
         [] mnemonic = "MOD" -> Opcode.MOD_REG_BY_REG
         [] mnemonic = "AND" -> Opcode.AND_REG_WITH_REG
         [] mnemonic = "OR" -> Opcode.OR_REG_WITH_REG
         [] mnemonic = "XOR" -> Opcode.XOR_REG_WITH_REG
  ELSE IF secondType = OperandType.Number
  THEN CASE mnemonic = "ADD" -> Opcode.ADD_NUM_TO_REG
         [] mnemonic = "SUB" -> Opcode.SUB_NUM_FROM_REG
         [] mnemonic = "MUL" -> Opcode.MUL_REG_BY_NUM
         [] mnemonic = "DIV" -> Opcode.DIV_REG_BY_NUM
         [] mnemonic = "MOD" -> Opcode.MOD_REG_BY_NUM
         [] mnemonic = "AND" -> Opcode.AND_REG_WITH_NUM
         [] mnemonic = "OR" -> Opcode.OR_REG_WITH_NUM
         [] mnemonic = "XOR" -> Opcode.XOR_REG_WITH_NUM
  ELSE null

\* The switches of MOV on the types of its operands: an opcode, or the error
\* thrown.
movOpcode(firstOperand, secondOperand) ==
  IF firstOperand.type = OperandType.Register
  THEN CASE secondOperand.type = OperandType.Number -> Parsed(Opcode.MOV_NUM_TO_REG)
         [] secondOperand.type = OperandType.Register ->
              Failed(OperandTypeError(secondOperand.token,
                <<OperandType.Number, OperandType.Address, OperandType.RegisterAddress>>))
         [] secondOperand.type = OperandType.Address -> Parsed(Opcode.MOV_ADDR_TO_REG)
         [] secondOperand.type = OperandType.RegisterAddress ->
              Parsed(Opcode.MOV_REG_ADDR_TO_REG)
         [] OTHER -> Parsed(null)
  ELSE IF firstOperand.type = OperandType.Address
  THEN IF secondOperand.type # OperandType.Register
       THEN Failed(OperandTypeError(secondOperand.token, <<OperandType.Register>>))
       ELSE Parsed(Opcode.MOV_REG_TO_ADDR)
  ELSE IF firstOperand.type = OperandType.RegisterAddress
  THEN IF secondOperand.type # OperandType.Register
       THEN Failed(OperandTypeError(secondOperand.token, <<OperandType.Register>>))
       ELSE Parsed(Opcode.MOV_REG_TO_REG_ADDR)
  ELSE Parsed(null)

cmpOpcode(secondType) ==
  CASE secondType = OperandType.Register -> Opcode.CMP_REG_WITH_REG
    [] secondType = OperandType.Number -> Opcode.CMP_REG_WITH_NUM
    [] secondType = OperandType.Address -> Opcode.CMP_REG_WITH_ADDR
    [] OTHER -> null

\* case 2 of parseStatement: the operands of the mnemonic at index - 1.
parseTwoOperands(tokens, index, mnemonic) ==
  IF mnemonic = "MOV"
  THEN parseDoubleOperands(tokens, index,
         <<OperandType.Register, OperandType.Address, OperandType.RegisterAddress>>,
         <<OperandType.Number, OperandType.Register, OperandType.Address,
           OperandType.RegisterAddress>>, TRUE)
  ELSE IF mnemonic = "CMP"
  THEN parseDoubleOperands(tokens, index, <<OperandType.Register>>,
         <<OperandType.Register, OperandType.Number, OperandType.Address>>, FALSE)
  ELSE parseDoubleOperands(tokens, index, <<OperandType.Register>>,
         <<OperandType.Register, OperandType.Number>>, FALSE)

twoOperandOpcode(mnemonic, operands) ==
  IF mnemonic = "MOV" THEN movOpcode(operands[1], operands[2])
  ELSE IF mnemonic = "CMP" THEN Parsed(cmpOpcode(operands[2].type))
  ELSE Parsed(arithmeticOpcode(mnemonic, operands[2].type))

\* parseStatement after the label: index is where the mnemonic is looked for.
parseInstruction(tokens, index, label) ==
  Bind(tokenAt(tokens, index), LAMBDA token :
    IF token = NoToken THEN Failed(MissingEndError)
    ELSE IF token.type # TokenType.Unknown \/ Joined(token.value) \notin Mnemonic
    THEN Failed(StatementError(token, label # NoLabel))
    ELSE Bind(Joined(token.value), LAMBDA mnemonic :
      IF MNEMONIC_TO_OPERANDS_COUNT_MAP(mnemonic) = 0
      THEN Parsed(createStatement(label,
             [createInstruction(token) EXCEPT !.opcode = Opcode[mnemonic]], <<>>))
      ELSE IF MNEMONIC_TO_OPERANDS_COUNT_MAP(mnemonic) = 1
      THEN Bind(parseSingleOperand(tokens, index + 1, oneOperandTypes(mnemonic)),
                LAMBDA operand :
             IF operand.error # NoAssemblerError THEN operand
             ELSE Parsed(createStatement(label,
                    [createInstruction(token) EXCEPT !.opcode = oneOperandOpcode(mnemonic)],
                    <<operand.value>>)))
      ELSE Bind(parseTwoOperands(tokens, index + 1, mnemonic), LAMBDA operands :
             IF operands.error # NoAssemblerError THEN operands
             ELSE Bind(twoOperandOpcode(mnemonic, operands.value), LAMBDA opcode :
               IF opcode.error # NoAssemblerError THEN opcode
               ELSE Parsed(createStatement(label,
                      [createInstruction(token) EXCEPT !.opcode = opcode.value],
                      operands.value))))))

\* A faulty variant of parseStatement: the label is not handed on.
parseStatement_labelDropped(tokens, index) ==
  Bind(parseLabel(tokens, index), LAMBDA label :
    IF label.error # NoAssemblerError THEN label
    ELSE parseInstruction(tokens, IF label.value # NoLabel THEN index + 1 ELSE index,
                          NoLabel))

parseStatement(tokens, index) ==
  Bind(parseLabel(tokens, index), LAMBDA label :
    IF label.error # NoAssemblerError THEN label
    ELSE parseInstruction(tokens, IF label.value # NoLabel THEN index + 1 ELSE index,
                          label.value))

\* A faulty variant of getConsumedTokensCount: the label is not counted.
getConsumedTokensCount_labelUncounted(statement) ==
  1 + Len(statement.operands) + (IF Len(statement.operands) = 2 THEN 1 ELSE 0)

getConsumedTokensCount(statement) ==
  (IF statement.label # NoLabel THEN 1 ELSE 0) + 1 + Len(statement.operands)
    + (IF Len(statement.operands) = 2 THEN 1 ELSE 0)

\* The loop of parse from index on, and the check after it.
RECURSIVE parseFrom(_, _, _)
parseFrom(tokens, index, statements) ==
  IF index < Len(tokens)
  THEN Bind(parseStatement(tokens, index), LAMBDA statement :
         IF statement.error # NoAssemblerError THEN statement
         ELSE parseFrom(tokens, index + getConsumedTokensCount(statement.value),
                        Append(statements, statement.value)))
  ELSE IF \/ Len(statements) = 0
          \/ statements[Len(statements)].instruction.opcode # Opcode.END
  THEN Failed(MissingEndError)
  ELSE Parsed(statements)

parse(tokens) == parseFrom(tokens, 0, <<>>)

(***************************************************************************)
(* The driver of the assembler: the statements are given their addresses,  *)
(* the labels are resolved, and the image and the statement map are built. *)
(***************************************************************************)
DuplicateLabelError(token) == [name |-> "DuplicateLabelError", token |-> token]
AssembleOverflowError == [name |-> "AssembleOverflowError"]
LabelNotExistError(token) == [name |-> "LabelNotExistError", token |-> token]
JumpDistanceError(token) == [name |-> "JumpDistanceError", token |-> token]

\* A memory overwritten with the machine codes of a statement at its address.
Place(memory, address, machineCodes) ==
  [a \in DOMAIN memory |->
     IF a \in address..(address + Len(machineCodes) - 1)
     THEN machineCodes[a - address + 1]
     ELSE memory[a]]

mnemonicOf(statement) == Joined(statement.instruction.token.value)

\* The cursor before the i-th statement.
RECURSIVE addressOf(_, _)
addressOf(statements, i) ==
  IF i = 1 THEN 0
  ELSE IF mnemonicOf(statements[i - 1]) = "ORG"
  THEN statements[i - 1].operands[1].value[1]
  ELSE addressOf(statements, i - 1) + Len(statements[i - 1].machineCodes)

\* The statements that carry the label.
labelled(statements, identifier) ==
  { i \in DOMAIN statements :
      /\ statements[i].label # NoLabel
      /\ statements[i].label.identifier = identifier }

firstOf(indices) == CHOOSE i \in indices : \A j \in indices : i <= j
lastOf(indices) == CHOOSE i \in indices : \A j \in indices : i >= j

\* The statement carries a label that an earlier one carries.
isDuplicate(statements, i) ==
  /\ statements[i].label # NoLabel
  /\ firstOf(labelled(statements, statements[i].label.identifier)) < i

\* The cursor has left the memory and statements remain.
isOverflow(statements, i) ==
  /\ i < Len(statements)
  /\ addressOf(statements, i + 1) > 255

firstPassError(statements) ==
  IF \E i \in DOMAIN statements : isDuplicate(statements, i) \/ isOverflow(statements, i)
  THEN Bind(firstOf({ i \in DOMAIN statements :
                        isDuplicate(statements, i) \/ isOverflow(statements, i) }),
            LAMBDA i : IF isDuplicate(statements, i)
                       THEN DuplicateLabelError(statements[i].label.token)
                       ELSE AssembleOverflowError)
  ELSE NoAssemblerError

\* The statement has a label for its operand.
hasLabelOperand(statement) ==
  /\ Len(statement.operands) = 1
  /\ statement.operands[1].type = OperandType.Label

\* The distance from the i-th statement to the label it names.
distanceOf(statements, i) ==
  addressOf(statements,
            firstOf(labelled(statements, statements[i].operands[1].token.value)))
    - (addressOf(statements, i) + 1)

labelError(statements, i) ==
  IF ~hasLabelOperand(statements[i]) THEN NoAssemblerError
  ELSE IF labelled(statements, statements[i].operands[1].token.value) = {}
  THEN LabelNotExistError(statements[i].operands[1].token)
  ELSE IF distanceOf(statements, i) \notin -128..127
  THEN JumpDistanceError(statements[i].operands[1].token)
  ELSE NoAssemblerError

secondPassError(statements) ==
  IF \E i \in DOMAIN statements : labelError(statements, i) # NoAssemblerError
  THEN labelError(statements,
         firstOf({ i \in DOMAIN statements : labelError(statements, i) # NoAssemblerError }))
  ELSE NoAssemblerError

\* The i-th statement with its label operand replaced by the distance.
resolved(statements, i) ==
  IF ~hasLabelOperand(statements[i]) THEN statements[i]
  ELSE createStatement(statements[i].label, statements[i].instruction,
         << [statements[i].operands[1] EXCEPT
               !.value = <<unsign8(distanceOf(statements, i))>>] >>)

\* The statements that are put into memory.
emitted(statements) == { i \in DOMAIN statements : mnemonicOf(statements[i]) # "ORG" }

RECURSIVE imageFrom(_, _, _)
imageFrom(statements, i, memory) ==
  IF i > Len(statements) THEN memory
  ELSE imageFrom(statements, i + 1,
         IF i \in emitted(statements)
         THEN Place(memory, addressOf(statements, i), resolved(statements, i).machineCodes)
         ELSE memory)

statementMapOf(statements) ==
  [ address \in { addressOf(statements, i) : i \in emitted(statements) } |->
      resolved(statements,
               lastOf({ i \in emitted(statements) : addressOf(statements, i) = address })) ]

\* assemble of the core, from the tokens on: what it returns or throws.
core_assemble(tokens) ==
  Bind(parse(tokens), LAMBDA parsed :
    IF parsed.error # NoAssemblerError THEN parsed
    ELSE IF firstPassError(parsed.value) # NoAssemblerError
    THEN Failed(firstPassError(parsed.value))
    ELSE IF secondPassError(parsed.value) # NoAssemblerError
    THEN Failed(secondPassError(parsed.value))
    ELSE Parsed([ addressToOpcodeMap |-> imageFrom(parsed.value, 1, [a \in 0..255 |-> 0]),
                  addressToStatementMap |-> statementMapOf(parsed.value) ]))

(***************************************************************************)
(* The store: the reducers the wrappers of the assembler dispatch to.      *)
(***************************************************************************)
\* The statement map with no statement, and the editor with no active range.
NoStatements == [address \in {} |-> NoToken]
NoActiveRange == [payload |-> "null"]
UndefinedStatement == [payload |-> "undefined"]

setMemoryDataFrom(addressToOpcodeMap) == addressToOpcodeMap
clearEditorActiveRange == NoActiveRange
setEditorActiveRange(statement) == statement

\* addressToStatementMap[0] in JavaScript.
statementAtZero(map) == IF 0 \in DOMAIN map THEN map[0] ELSE UndefinedStatement

(***************************************************************************)
(* The state: what the caller of step holds between two calls, the error   *)
(* the last call threw with the argument it was constructed with, and the  *)
(* number of calls so far; the tokens handed to the assembler, the         *)
(* statements it returned and the error it threw.                          *)
(***************************************************************************)
VARIABLES memoryData, cpuRegisters, signals, error, errorArgument, steps,
          tokens, statements, assemblerError, addressToStatementMap, activeRange

cpuVars == <<memoryData, cpuRegisters, signals, error, errorArgument>>
assemblerVars ==
  <<tokens, statements, assemblerError, addressToStatementMap, activeRange>>
vars == <<cpuVars, steps, assemblerVars>>

\* Nothing has been handed to the assembler.
AssemblerIdle ==
  /\ tokens = <<>>
  /\ statements = <<>>
  /\ assemblerError = NoAssemblerError
  /\ addressToStatementMap = NoStatements
  /\ activeRange = NoActiveRange

Byte == 0..255

\* features/io/core: the bus before the first step.
initialSignals ==
  [ input |-> [data |-> [content |-> null, port |-> 0], interrupt |-> FALSE],
    output |-> [ halted |-> FALSE,
                 requiredInputDataPort |-> null,
                 data |-> [content |-> null, port |-> null],
                 closeWindows |-> FALSE ] ]

\* The image of the assembler: 256 zero bytes ...
initMemory == [address \in Byte |-> 0]

(***************************************************************************)
(* The programs the model runs.                                            *)
(***************************************************************************)
ByteSamples ==
  (0..(SampleSpan - 1)) \cup ((128 - SampleSpan)..(127 + SampleSpan))
    \cup ((256 - SampleSpan)..255)

AL == GeneralPurposeRegister.AL
BL == GeneralPurposeRegister.BL

\* Where the interrupt handler of the machine programs is.  The address is the
\* byte at the vector, and read as a status byte it has the Interrupt bit set.
HandlerAddr == 80
\* The last two bytes of memory, where a program runs off its end.
TailAddr == 254

\* One instruction of a machine program.
MachineInstructions ==
  { <<Opcode.END>>, <<Opcode.NOP>>, <<Opcode.STI>>, <<Opcode.CLI>>, <<Opcode.CLO>>,
    <<Opcode.PUSHF>>, <<Opcode.POPF>>, <<Opcode.RET>>, <<Opcode.IRET>>,
    <<Opcode.PUSH_FROM_REG, AL>>, <<Opcode.PUSH_FROM_REG, 4>>,
    <<Opcode.POP_TO_REG, BL>>,
    <<Opcode.CALL_ADDR, HandlerAddr>>, <<Opcode.CALL_ADDR, TailAddr>>,
    <<Opcode.INT_ADDR, HARDWARE_INTERRUPT_VECTOR_ADDR>>,
    <<Opcode.IN_FROM_PORT_TO_AL, 5>>, <<Opcode.IN_FROM_PORT_TO_AL, MAX_PORT + 1>>,
    <<Opcode.OUT_FROM_AL_TO_PORT, 5>>, <<Opcode.OUT_FROM_AL_TO_PORT, MAX_PORT + 1>>,
    <<Opcode.JMP, 128>>, <<Opcode.JMP, 2>>, <<Opcode.JZ, 254>>, <<Opcode.JNZ, 254>>,
    <<Opcode.MOV_NUM_TO_REG, AL, 128>>, <<Opcode.ADD_NUM_TO_REG, AL, 128>>,
    <<Opcode.DIV_REG_BY_NUM, AL, 0>>, <<Opcode.MOV_REG_TO_ADDR, 2, AL>>,
    <<1>> }

\* The opcodes of arithmetic on a register and a register, on a register, and
\* on a register and a number.
RegRegOpcodes ==
  { Opcode.ADD_REG_TO_REG, Opcode.SUB_REG_FROM_REG, Opcode.MUL_REG_BY_REG,
    Opcode.DIV_REG_BY_REG, Opcode.MOD_REG_BY_REG, Opcode.AND_REG_WITH_REG,
    Opcode.OR_REG_WITH_REG, Opcode.XOR_REG_WITH_REG }
RegOpcodes ==
  { Opcode.INC_REG, Opcode.DEC_REG, Opcode.NOT_REG, Opcode.ROL_REG, Opcode.ROR_REG,
    Opcode.SHL_REG, Opcode.SHR_REG }
RegNumOpcodes ==
  { Opcode.ADD_NUM_TO_REG, Opcode.SUB_NUM_FROM_REG, Opcode.MUL_REG_BY_NUM,
    Opcode.DIV_REG_BY_NUM, Opcode.MOD_REG_BY_NUM, Opcode.AND_REG_WITH_NUM,
    Opcode.OR_REG_WITH_NUM, Opcode.XOR_REG_WITH_NUM }
CmpOpcodes ==
  { Opcode.CMP_REG_WITH_REG, Opcode.CMP_REG_WITH_NUM, Opcode.CMP_REG_WITH_ADDR }

\* One instruction of every opcode that is not among MachineInstructions,
\* and an invalid register for each form that names one.
OtherInstructions ==
  { <<opcode, AL, BL>> : opcode \in RegRegOpcodes \cup {Opcode.CMP_REG_WITH_REG} }
    \cup { <<opcode, AL>> : opcode \in RegOpcodes }
    \cup { <<opcode, AL, 129>> : opcode \in RegNumOpcodes \cup {Opcode.CMP_REG_WITH_NUM} }
    \cup { <<Opcode.JS, 254>>, <<Opcode.JNS, 254>>, <<Opcode.JO, 254>>, <<Opcode.JNO, 254>>,
           <<Opcode.MOV_ADDR_TO_REG, BL, 3>>, <<Opcode.MOV_REG_ADDR_TO_REG, BL, AL>>,
           <<Opcode.MOV_REG_TO_REG_ADDR, AL, BL>>, <<Opcode.CMP_REG_WITH_ADDR, AL, 3>>,
           <<Opcode.ADD_REG_TO_REG, AL, 4>>, <<Opcode.INC_REG, 255>>,
           <<Opcode.MOV_REG_TO_ADDR, 2, 4>>, <<Opcode.POP_TO_REG, 4>> }

\* What stands in the last two bytes of memory.
TailInstructions ==
  { <<Opcode.NOP, Opcode.NOP>>, <<Opcode.CALL_ADDR, HandlerAddr>>,
    <<Opcode.NOP, Opcode.JMP>>, <<Opcode.IN_FROM_PORT_TO_AL, 5>>,
    <<Opcode.JMP, 127>>, <<Opcode.NOP, Opcode.CALL_ADDR>>,
    <<Opcode.NOP, Opcode.INT_ADDR>>, <<Opcode.NOP, Opcode.IN_FROM_PORT_TO_AL>> }

\* jmp start; db <handler>; start: <first> <second> ... with an IRET as the
\* handler and <tail> in the last two bytes.
MachineProgram(first, second, tail) ==
  Place(Place(Place(initMemory,
        0, <<Opcode.JMP, 3, HandlerAddr>> \o first \o second),
        HandlerAddr, <<Opcode.IRET>>),
        TailAddr, tail)

\* Two instructions; an instruction of each opcode with the Interrupt flag
\* off and on; a call into the last two bytes.
MachinePrograms ==
  { MachineProgram(first, second, <<Opcode.NOP, Opcode.NOP>>) :
      first \in MachineInstructions, second \in MachineInstructions }
    \cup { MachineProgram(first, second, <<Opcode.NOP, Opcode.NOP>>) :
             first \in {<<Opcode.NOP>>, <<Opcode.STI>>}, second \in OtherInstructions }
    \cup { MachineProgram(<<Opcode.CALL_ADDR, TailAddr>>, <<Opcode.END>>, tail) :
             tail \in TailInstructions }

\* The programs run on a stack that is nearly full: after MAX_SP - 2,
\* MAX_SP - 1 and MAX_SP pushes.
DeepStackPrograms ==
  { MachineProgram(first, second, <<Opcode.NOP, Opcode.NOP>>) :
      first \in MachineInstructions,
      second \in {<<Opcode.END>>, <<Opcode.PUSH_FROM_REG, AL>>} }
DeepStackPointers == {2, 1, 0}

\* The data a device puts on the bus.
InputData ==
  { [content |-> null, port |-> 0], [content |-> null, port |-> 5],
    [content |-> 0, port |-> 5], [content |-> 127, port |-> 5],
    [content |-> 127, port |-> 6] }

Inputs == [data : InputData, interrupt : BOOLEAN]

Init ==
  /\ \/ /\ memoryData \in MachinePrograms
        /\ cpuRegisters = initRegisters
     \/ /\ memoryData \in DeepStackPrograms
        /\ \E sp \in DeepStackPointers : cpuRegisters = [initRegisters EXCEPT !.sp = sp]
  /\ signals = initialSignals
  /\ error = NoError
  /\ errorArgument = undefined
  /\ steps = 0
  /\ AssemblerIdle

\* The arithmetic programs: sti or nop; mov al, a; mov bl, b; <instruction>.
\* Every byte is tried as the dividend of a division by zero.
ArithmeticInstructions ==
  { <<opcode, AL, src>> : opcode \in RegRegOpcodes \cup {Opcode.CMP_REG_WITH_REG},
                          src \in {AL, BL} }
    \cup { <<opcode, AL>> : opcode \in RegOpcodes }
    \cup { <<opcode, AL, 6>> :
             opcode \in RegNumOpcodes \cup {Opcode.CMP_REG_WITH_NUM, Opcode.CMP_REG_WITH_ADDR} }

\* An instruction on a register and a number takes b as the number, and the
\* comparison with memory the address where b stands.
ArithmeticProgram(first, a, b, instruction) ==
  Place(initMemory, 0,
        <<first, Opcode.MOV_NUM_TO_REG, AL, a, Opcode.MOV_NUM_TO_REG, BL, b>>
          \o (IF instruction[1] \in RegNumOpcodes \cup {Opcode.CMP_REG_WITH_NUM}
              THEN <<instruction[1], instruction[2], b>>
              ELSE instruction))

ArithmeticPrograms ==
  { ArithmeticProgram(first, a, b, instruction) :
      first \in {Opcode.NOP, Opcode.STI}, a \in ByteSamples, b \in ByteSamples,
      instruction \in ArithmeticInstructions }
    \cup { ArithmeticProgram(Opcode.NOP, a, 0, instruction) :
             a \in Byte,
             instruction \in { <<Opcode.DIV_REG_BY_REG, AL, BL>>, <<Opcode.MOD_REG_BY_REG, AL, BL>>,
                               <<Opcode.DIV_REG_BY_NUM, AL, 6>>, <<Opcode.MOD_REG_BY_NUM, AL, 6>> } }

InitArithmetic ==
  /\ memoryData \in ArithmeticPrograms
  /\ cpuRegisters = initRegisters
  /\ signals = initialSignals
  /\ error = NoError
  /\ errorArgument = undefined
  /\ steps = 0
  /\ AssemblerIdle

\* The states of the 8-bit machine: what step is followed from.
WellFormed ==
  /\ DOMAIN memoryData = Byte
  /\ \A address \in Byte : memoryData[address] \in Byte
  /\ \A register \in 0..3 : cpuRegisters.gpr[register] \in Byte
  /\ cpuRegisters.ip \in Byte

\* The caller runs one step on what it holds and keeps what step returns.
Step ==
  /\ steps < MaxSteps
  /\ WellFormed
  /\ LET result == step([ memoryData |-> memoryData, cpuRegisters |-> cpuRegisters,
                          signals |-> signals ])
     IN /\ memoryData' = result.memoryData
        /\ cpuRegisters' = result.cpuRegisters
        /\ signals' = result.signals
        /\ error' = result.error
        /\ errorArgument' = result.argument
  /\ steps' = steps + 1
  /\ UNCHANGED assemblerVars

\* A device changes the input side of the bus between two steps.
Device ==
  /\ steps < MaxSteps
  /\ \E input \in Inputs :
       /\ input # signals.input
       /\ signals' = [signals EXCEPT !.input = input]
  /\ UNCHANGED <<memoryData, cpuRegisters, error, errorArgument, steps, assemblerVars>>

Next == Step \/ Device

Spec == Init /\ [][Next]_vars

\* The arithmetic programs run with a quiet bus.
NextArithmetic == Step

SpecArithmetic == InitArithmetic /\ [][NextArithmetic]_vars

(***************************************************************************)
(* The stack: one or two stack instructions at an address, run from there  *)
(* on every status register, with the stack empty, nearly empty, nearly    *)
(* full, full, and reaching down to where the instructions stand.          *)
(***************************************************************************)
StackSites == {0, 16, TailAddr}

StackPointers == {0, 1, 16, HandlerAddr, MAX_SP - 1, MAX_SP}

StackInstructions ==
  { <<Opcode.CALL_ADDR, HandlerAddr>>, <<Opcode.CALL_ADDR, 128>>,
    <<Opcode.PUSH_FROM_REG, AL, Opcode.POP_TO_REG, AL>>,
    <<Opcode.PUSH_FROM_REG, AL, Opcode.POP_TO_REG, BL>>,
    <<Opcode.PUSH_FROM_REG, BL, Opcode.POP_TO_REG, AL>>,
    <<Opcode.PUSHF, Opcode.POPF>>,
    <<Opcode.POP_TO_REG, AL>>, <<Opcode.POPF>>, <<Opcode.RET>>, <<Opcode.IRET>>,
    <<Opcode.INT_ADDR, HARDWARE_INTERRUPT_VECTOR_ADDR>>, <<Opcode.INT_ADDR, 129>>,
    <<Opcode.NOP>> }

\* The instructions at site, a RET where the calls go and the handler's
\* address at the vector; at 129 the vector of a software interrupt whose
\* handler is the IRET after it.
StackProgram(site, instructions) ==
  Place(Place(Place(Place(initMemory,
        HARDWARE_INTERRUPT_VECTOR_ADDR, <<HandlerAddr>>),
        HandlerAddr, <<Opcode.RET>>),
        128, <<Opcode.RET, 130, Opcode.IRET>>),
        site, instructions)

\* A POPF of every byte.
PopfProgram(value) ==
  Place(Place(initMemory, 0, <<Opcode.POPF>>), MAX_SP, <<value>>)

StatusRegisters == [0..3 -> {FlagStatus.Off, FlagStatus.On}]

InitStack ==
  /\ \/ \E site \in StackSites, instructions \in StackInstructions :
          /\ memoryData = StackProgram(site, instructions)
          /\ \E al \in {17, 254}, pointer \in StackPointers, flags \in StatusRegisters :
               cpuRegisters = [ gpr |-> [r \in 0..3 |-> (al + r) % 256],
                                ip |-> site, sp |-> pointer, sr |-> flags ]
          /\ \E interrupt \in BOOLEAN :
               signals = [initialSignals EXCEPT !.input.interrupt = interrupt]
     \/ \E value \in Byte, flags \in StatusRegisters :
          /\ memoryData = PopfProgram(value)
          /\ cpuRegisters = [initRegisters EXCEPT !.sp = MAX_SP - 1, !.sr = flags]
          /\ signals = initialSignals
  /\ error = NoError
  /\ errorArgument = undefined
  /\ steps = 0
  /\ AssemblerIdle

SpecStack == InitStack /\ [][Step]_vars

(***************************************************************************)
(* Jumps: a jump of each opcode at an address, run from there on every     *)
(* status register; and the loop of the documentation as the assembler     *)
(* lays it out.                                                            *)
(***************************************************************************)
JumpOpcodes ==
  { Opcode.JMP, Opcode.JZ, Opcode.JNZ, Opcode.JS, Opcode.JNS, Opcode.JO, Opcode.JNO }

\* The byte the assembler puts for a label operand: the distance from the
\* statement to the label, as an unsigned byte.
labelDistance(targetAddress, statementAddress) ==
  unsign8(targetAddress - (statementAddress + 1))

\* mov al, 03; loop: dec al; jnz loop; end
LoopProgram ==
  Place(initMemory, 0,
        << Opcode.MOV_NUM_TO_REG, AL, 3,
           Opcode.DEC_REG, AL,
           Opcode.JNZ, labelDistance(3, 5),
           Opcode.END >>)

InitJump ==
  /\ \/ \E site \in {0, 3, 128, 253, TailAddr}, opcode \in JumpOpcodes,
           distance \in ByteSamples \cup {2, 3}, flags \in StatusRegisters :
          /\ memoryData = Place(initMemory, site, <<opcode, distance>>)
          /\ cpuRegisters = [initRegisters EXCEPT !.ip = site, !.sr = flags]
     \/ /\ memoryData = LoopProgram
        /\ cpuRegisters = initRegisters
  /\ signals = initialSignals
  /\ error = NoError
  /\ errorArgument = undefined
  /\ steps = 0
  /\ AssemblerIdle

SpecJump == InitJump /\ [][Step]_vars

(***************************************************************************)
(* Dispatch: every byte as the opcode at ip, followed by two operand bytes *)
(* that are, or are not, the index of a register; and every byte as the   *)
(* port of an IN and of an OUT.                                            *)
(***************************************************************************)
InitDispatch ==
  /\ \/ \E site \in {0, 253}, opcode \in Byte, first \in {0, 3, 4, 255},
           second \in {0, 3, 4, 255}, interrupt \in BOOLEAN,
           status \in {FlagStatus.Off, FlagStatus.On} :
          /\ memoryData = Place(initMemory, site, <<opcode, first, second>>)
          /\ cpuRegisters = [initRegisters EXCEPT !.ip = site,
                                                  !.gpr = [r \in 0..3 |-> 17 + r],
                                                  !.sr[Flag.Interrupt] = status]
          /\ signals = [initialSignals EXCEPT !.input.interrupt = interrupt]
     \/ \E site \in {0, 253}, port \in Byte,
           opcode \in {Opcode.IN_FROM_PORT_TO_AL, Opcode.OUT_FROM_AL_TO_PORT} :
          /\ memoryData = Place(initMemory, site, <<opcode, port>>)
          /\ cpuRegisters = [initRegisters EXCEPT !.ip = site,
                                                  !.gpr = [r \in 0..3 |-> 17 + r]]
          /\ signals = initialSignals
  /\ error = NoError
  /\ errorArgument = undefined
  /\ steps = 0
  /\ AssemblerIdle

SpecDispatch == InitDispatch /\ [][Step]_vars

(***************************************************************************)
(* The parser: the token lists it is handed.  One statement is tried with  *)
(* every mnemonic and every kind of token as its operands, after a label   *)
(* or not, before a few statements without operands or at the end.         *)
(***************************************************************************)
MaxTail == 1

token(type, value) == [type |-> type, value |-> value]

CommaToken == token(TokenType.Comma, <<",">>)

\* 12, 100, AL, DL, [12], [100], [BL], [XY], "HI", FF, ABC, LOOP, 1X and a comma.
OperandTokens ==
  { token(TokenType.Digits, <<"1", "2">>), token(TokenType.Digits, <<"1", "0", "0">>),
    token(TokenType.Register, <<"A", "L">>), token(TokenType.Register, <<"D", "L">>),
    token(TokenType.Address, <<"1", "2">>), token(TokenType.Address, <<"1", "0", "0">>),
    token(TokenType.Address, <<"B", "L">>), token(TokenType.Address, <<"X", "Y">>),
    token(TokenType.String, <<"H", "I">>),
    token(TokenType.Unknown, <<"F", "F">>), token(TokenType.Unknown, <<"A", "B", "C">>),
    token(TokenType.Unknown, <<"L", "O", "O", "P">>),
    token(TokenType.Unknown, <<"1", "X">>),
    CommaToken }

\* What stands where the comma should: the comma, a register, a number.
SeparatorTokens ==
  { CommaToken, token(TokenType.Register, <<"A", "L">>),
    token(TokenType.Digits, <<"1", "2">>) }

\* The mnemonics as the tokenizer hands them over: Unknown tokens.
MnemonicTokens ==
  { token(TokenType.Unknown, value) : value \in {
    <<"E", "N", "D">>, <<"H", "A", "L", "T">>, <<"P", "U", "S", "H", "F">>,
    <<"P", "O", "P", "F">>, <<"R", "E", "T">>, <<"I", "R", "E", "T">>,
    <<"S", "T", "I">>, <<"C", "L", "I">>, <<"C", "L", "O">>,
    <<"N", "O", "P">>, <<"I", "N", "C">>, <<"D", "E", "C">>,
    <<"N", "O", "T">>, <<"R", "O", "L">>, <<"R", "O", "R">>,
    <<"S", "H", "L">>, <<"S", "H", "R">>, <<"J", "M", "P">>, <<"J", "Z">>,
    <<"J", "N", "Z">>, <<"J", "S">>, <<"J", "N", "S">>, <<"J", "O">>,
    <<"J", "N", "O">>, <<"P", "U", "S", "H">>, <<"P", "O", "P">>,
    <<"C", "A", "L", "L">>, <<"I", "N", "T">>, <<"I", "N">>,
    <<"O", "U", "T">>, <<"O", "R", "G">>, <<"D", "B">>, <<"A", "D", "D">>,
    <<"S", "U", "B">>, <<"M", "U", "L">>, <<"D", "I", "V">>,
    <<"M", "O", "D">>, <<"A", "N", "D">>, <<"O", "R">>, <<"X", "O", "R">>,
    <<"M", "O", "V">>, <<"C", "M", "P">> } }

\* What stands where a statement begins: a mnemonic, or something else.
HeadTokens ==
  MnemonicTokens \cup
    { token(TokenType.Unknown, <<"L", "O", "O", "P">>),
      token(TokenType.Unknown, <<"F", "F">>),
      token(TokenType.Digits, <<"1", "2">>),
      token(TokenType.Register, <<"A", "L">>),
      token(TokenType.String, <<"H", "I">>),
      token(TokenType.Address, <<"1", "2">>),
      CommaToken }

\* LOOP: and 1BAD:
LabelTokens ==
  { token(TokenType.Unknown, <<"L", "O", "O", "P", ":">>),
    token(TokenType.Unknown, <<"1", "B", "A", "D", ":">>) }

\* The statements without operands that follow: at most MaxTail of END, HALT
\* and NOP.
RECURSIVE Tails(_)
Tails(n) ==
  IF n = 0 THEN { <<>> }
  ELSE Tails(n - 1) \cup
         { tail \o <<token(TokenType.Unknown, value)>> :
             tail \in Tails(n - 1),
             value \in { <<"E", "N", "D">>, <<"H", "A", "L", "T">>, <<"N", "O", "P">> } }

TokenLists ==
  { <<head, first>> \o rest \o tail :
      head \in MnemonicTokens, first \in OperandTokens,
      rest \in { <<>> } \cup { <<separator, second>> :
                                separator \in SeparatorTokens, second \in OperandTokens },
      tail \in { <<>>, <<token(TokenType.Unknown, <<"E", "N", "D">>)>> } }
    \cup { prefix \o <<head>> \o operands \o tail :
             prefix \in { <<>> } \cup { <<label>> : label \in LabelTokens },
             head \in HeadTokens,
             operands \in { <<>>, <<token(TokenType.Register, <<"A", "L">>)>>,
                            << token(TokenType.Register, <<"A", "L">>), CommaToken,
                               token(TokenType.Digits, <<"1", "2">>) >> },
             tail \in Tails(MaxTail) }
    \cup { prefix \o tail :
             prefix \in { <<>> } \cup { <<label>> : label \in LabelTokens },
             tail \in Tails(MaxTail) }
    \cup { <<token(TokenType.Unknown, <<"N", "O", "P">>)>> \o prefix \o <<head>> :
             prefix \in { <<>> } \cup { <<label>> : label \in LabelTokens },
             head \in HeadTokens }

InitParser ==
  /\ tokens \in TokenLists
  /\ statements = <<>>
  /\ assemblerError = NoAssemblerError
  /\ addressToStatementMap = NoStatements
  /\ activeRange = NoActiveRange
  /\ memoryData = initMemory
  /\ cpuRegisters = initRegisters
  /\ signals = initialSignals
  /\ error = NoError
  /\ errorArgument = undefined
  /\ steps = 0

\* The caller hands the tokens to parse and keeps what it returns or throws.
Parse ==
  /\ steps = 0
  /\ LET result == parse(tokens)
     IN /\ assemblerError' = result.error
        /\ statements' = IF result.error = NoAssemblerError THEN result.value ELSE <<>>
  /\ steps' = steps + 1
  /\ UNCHANGED <<cpuVars, tokens, addressToStatementMap, activeRange>>

SpecParser == InitParser /\ [][Parse]_vars

(***************************************************************************)
(* The assembler in the application: a source is assembled into the store  *)
(* by either wrapper, the machine runs on what the store holds, and        *)
(* another source is assembled.                                            *)
(***************************************************************************)
Word(value) == token(TokenType.Unknown, value)

\* The sources handed to the wrappers, as the tokens on their lines.
StoreInputs ==
  { \* mov al, 12 / inc al / end
    << Word(<<"M", "O", "V">>), token(TokenType.Register, <<"A", "L">>), CommaToken,
       token(TokenType.Digits, <<"1", "2">>),
       Word(<<"I", "N", "C">>), token(TokenType.Register, <<"A", "L">>),
       Word(<<"E", "N", "D">>) >>,
    \* loop: inc al / jmp loop / end
    << Word(<<"L", "O", "O", "P", ":">>),
       Word(<<"I", "N", "C">>), token(TokenType.Register, <<"A", "L">>),
       Word(<<"J", "M", "P">>), Word(<<"L", "O", "O", "P">>),
       Word(<<"E", "N", "D">>) >>,
    \* org 12 / nop / end
    << Word(<<"O", "R", "G">>), token(TokenType.Digits, <<"1", "2">>),
       Word(<<"N", "O", "P">>), Word(<<"E", "N", "D">>) >>,
    \* db "HI" / end
    << Word(<<"D", "B">>), token(TokenType.String, <<"H", "I">>),
       Word(<<"E", "N", "D">>) >>,
    \* end
    << Word(<<"E", "N", "D">>) >>,
    \* mov al, 100 / end
    << Word(<<"M", "O", "V">>), token(TokenType.Register, <<"A", "L">>), CommaToken,
       token(TokenType.Digits, <<"1", "0", "0">>), Word(<<"E", "N", "D">>) >>,
    \* inc al
    << Word(<<"I", "N", "C">>), token(TokenType.Register, <<"A", "L">>) >>,
    \* jmp loop / end
    << Word(<<"J", "M", "P">>), Word(<<"L", "O", "O", "P">>), Word(<<"E", "N", "D">>) >>,
    \* loop: nop / loop: nop / end
    << Word(<<"L", "O", "O", "P", ":">>), Word(<<"N", "O", "P">>),
       Word(<<"L", "O", "O", "P", ":">>), Word(<<"N", "O", "P">>),
       Word(<<"E", "N", "D">>) >>,
    \* nothing
    << >> }

InitStore ==
  /\ memoryData = initMemory
  /\ cpuRegisters = initRegisters
  /\ signals = initialSignals
  /\ error = NoError
  /\ errorArgument = undefined
  /\ steps = 0
  /\ AssemblerIdle

\* assemble of assemble.ts on an input.
assemble(input) ==
  /\ tokens' = input
  /\ LET assembleResult == core_assemble(input)
     IN IF assembleResult.error # NoAssemblerError
        THEN /\ activeRange' = clearEditorActiveRange
             /\ assemblerError' = assembleResult.error
             /\ UNCHANGED <<memoryData, cpuRegisters, addressToStatementMap>>
        ELSE /\ memoryData' = setMemoryDataFrom(assembleResult.value.addressToOpcodeMap)
             /\ cpuRegisters' = initRegisters
             /\ addressToStatementMap' = assembleResult.value.addressToStatementMap
             /\ assemblerError' = NoAssemblerError
             /\ activeRange' =
                  IF statementAtZero(assembleResult.value.addressToStatementMap)
                       = UndefinedStatement
                  THEN clearEditorActiveRange
                  ELSE setEditorActiveRange(
                         statementAtZero(assembleResult.value.addressToStatementMap))
  /\ UNCHANGED <<signals, error, errorArgument, steps, statements>>

\* The function useAssembler of hooks.ts returns, on an input.
useAssembler(input) ==
  /\ tokens' = input
  /\ LET assembleResult == core_assemble(input)
     IN IF assembleResult.error # NoAssemblerError
        THEN /\ addressToStatementMap' = NoStatements
             /\ assemblerError' = assembleResult.error
             /\ activeRange' = setEditorActiveRange(NoActiveRange)
             /\ UNCHANGED <<memoryData, cpuRegisters>>
        ELSE /\ memoryData' = setMemoryDataFrom(assembleResult.value.addressToOpcodeMap)
             /\ cpuRegisters' = initRegisters
             /\ addressToStatementMap' = assembleResult.value.addressToStatementMap
             /\ assemblerError' = NoAssemblerError
             /\ activeRange' = setEditorActiveRange(
                  statementAtZero(assembleResult.value.addressToStatementMap))
  /\ UNCHANGED <<signals, error, errorArgument, steps, statements>>

Assemble == \E input \in StoreInputs : assemble(input)
UseAssembler == \E input \in StoreInputs : useAssembler(input)

NextStore == Assemble \/ UseAssembler \/ Step

SpecStore == InitStore /\ [][NextStore]_vars

(***************************************************************************)
(* The interrupt line held: the machine is stepped with the input side of  *)
(* the bus left as it is, from a full and from a short stack, for as many  *)
(* steps as the stack has room and one more.                               *)
(***************************************************************************)
\* The longest run of steps with the bus left alone.
MaxHeldSteps == 193

HeldPointers == {0, HARDWARE_INTERRUPT_VECTOR_ADDR, 16, MAX_SP}

InitHeld ==
  /\ \E site \in {0, 16}, pointer \in HeldPointers, flags \in StatusRegisters :
       /\ memoryData = StackProgram(site, <<Opcode.NOP>>)
       /\ cpuRegisters = [initRegisters EXCEPT !.ip = site, !.sp = pointer, !.sr = flags]
  /\ \E interrupt \in BOOLEAN :
       signals = [initialSignals EXCEPT !.input.interrupt = interrupt]
  /\ error = NoError
  /\ errorArgument = undefined
  /\ steps = 0
  /\ AssemblerIdle

\* The caller runs one more step on what it holds.
StepHeld ==
  /\ steps < MaxHeldSteps
  /\ WellFormed
  /\ LET result == step([ memoryData |-> memoryData, cpuRegisters |-> cpuRegisters,
                          signals |-> signals ])
     IN /\ memoryData' = result.memoryData
        /\ cpuRegisters' = result.cpuRegisters
        /\ signals' = result.signals
        /\ error' = result.error
        /\ errorArgument' = result.argument
  /\ steps' = steps + 1
  /\ UNCHANGED assemblerVars

SpecHeld == InitHeld /\ [][StepHeld]_vars

(***************************************************************************)
(* The step of features/cpu/core.ts: memory and a CPU with its flags as    *)
(* booleans and isHalted, no bus.  A call that throws returns nothing, so  *)
(* the caller keeps what it passed.                                        *)
(***************************************************************************)
init ==
  [ gpr |-> [r \in 0..3 |-> 0],
    ip |-> 0,
    sp |-> MAX_SP,
    sr |-> [f \in 0..3 |-> FALSE],
    isHalted |-> FALSE ]

checkGPR(register) ==
  IF Lt(register, 0) \/ Gt(register, 3)
  THEN ThrowsWith(InvalidRegisterError, register)
  ELSE Returns(register)

checkIP(address) ==
  IF Gt(address, 255) THEN Throws(RunBeyondEndOfMemoryError) ELSE Returns(address)

\* const name = a call that may throw, then the statements that follow it.
Try(res, body(_)) == IF res.error # NoError THEN res ELSE body(res.value)

\* memory[address]
memoryAt(memory, address) ==
  IF address \in DOMAIN memory THEN memory[address] ELSE undefined

\* setSR(flags) with the three flags of checkOperationResult.
withFlags(cpu, flags) ==
  [cpu EXCEPT !.sr = [f \in 0..3 |-> IF f \in DOMAIN flags
                                      THEN flags[f] = FlagStatus.On ELSE @[f]]]

\* getOperationResult, then setGPR and the last incIP.
writeBack(memory, cpu, destReg, res, by) ==
  Try(res, LAMBDA result :
  Try(checkIP(cpu.ip + by), LAMBDA address :
    Returns([ memory |-> memory,
              cpu |-> [withFlags(cpu, checkOperationResult(result, cpu.gpr[destReg]).flags)
                         EXCEPT !.gpr[destReg] =
                                  checkOperationResult(result, cpu.gpr[destReg]).finalResult,
                                !.ip = address] ])))

\* The result of the arithmetic of an opcode on the register's value and a
\* second value, before checkOperationResult.
binaryResult(opcode, dest, src) ==
  CASE opcode \in {Opcode.ADD_REG_TO_REG, Opcode.ADD_NUM_TO_REG} -> Returns(dest + src)
    [] opcode \in {Opcode.SUB_REG_FROM_REG, Opcode.SUB_NUM_FROM_REG} -> Returns(dest - src)
    [] opcode \in {Opcode.MUL_REG_BY_REG, Opcode.MUL_REG_BY_NUM} -> Returns(dest * src)
    [] opcode \in {Opcode.DIV_REG_BY_REG, Opcode.DIV_REG_BY_NUM} ->
         Try(checkDivisor(src), LAMBDA divisor : Returns(FloorDiv(dest, divisor)))
    [] opcode \in {Opcode.MOD_REG_BY_REG, Opcode.MOD_REG_BY_NUM} ->
         Try(checkDivisor(src), LAMBDA divisor : Returns(Rem(dest, divisor)))
    [] opcode \in {Opcode.AND_REG_WITH_REG, Opcode.AND_REG_WITH_NUM} ->
         Returns(BitAnd(dest, src))
    [] opcode \in {Opcode.OR_REG_WITH_REG, Opcode.OR_REG_WITH_NUM} ->
         Returns(BitOr(dest, src))
    [] opcode \in {Opcode.XOR_REG_WITH_REG, Opcode.XOR_REG_WITH_NUM} ->
         Returns(BitXor(dest, src))

unaryResult(opcode, value) ==
  CASE opcode = Opcode.INC_REG -> Returns(value + 1)
    [] opcode = Opcode.DEC_REG -> Returns(value - 1)
    [] opcode = Opcode.NOT_REG -> Returns((-value) - 1)
    [] opcode = Opcode.ROL_REG -> Returns(2 * value + FloorDiv(value, 128))
    [] opcode = Opcode.ROR_REG -> Returns(Rem(value, 2) * 128 + FloorDiv(value, 2))
    [] opcode = Opcode.SHL_REG -> Returns(2 * value)
    [] opcode = Opcode.SHR_REG -> Returns(FloorDiv(value, 2))

\* The opcodes whose second operand is a register, with a checked register
\* for the first: the arithmetic, the indirect moves and CMP of two registers.
TwoRegisterOpcodes ==
  RegRegOpcodes \cup { Opcode.MOV_REG_ADDR_TO_REG, Opcode.MOV_REG_TO_REG_ADDR,
                       Opcode.CMP_REG_WITH_REG }

\* The opcodes with a checked register and then a byte that is not checked.
RegisterByteOpcodes ==
  RegNumOpcodes \cup { Opcode.MOV_NUM_TO_REG, Opcode.MOV_ADDR_TO_REG,
                       Opcode.CMP_REG_WITH_NUM, Opcode.CMP_REG_WITH_ADDR }

\* The flags of a comparison, and the last incIP.
compare(memory, cpu, reg, value) ==
  Try(checkIP(cpu.ip + 3), LAMBDA address :
    Returns([ memory |-> memory,
              cpu |-> [withFlags(cpu, checkOperationResult(cpu.gpr[reg] - value,
                                                           cpu.gpr[reg]).flags)
                         EXCEPT !.ip = address] ]))

\* setGPR or storeToMemory of a move, and the last incIP.
moved(memory, cpu) ==
  Try(checkIP(cpu.ip + 3), LAMBDA address :
    Returns([memory |-> memory, cpu |-> [cpu EXCEPT !.ip = address]]))

case_twoRegisters(memory, cpu, opcode) ==
  Try(checkIP(cpu.ip + 1), LAMBDA first :
  Try(checkGPR(memoryAt(memory, first)), LAMBDA destReg :
  Try(checkIP(cpu.ip + 2), LAMBDA second :
  Try(checkGPR(memoryAt(memory, second)), LAMBDA srcReg :
    CASE opcode \in RegRegOpcodes ->
           writeBack(memory, cpu, destReg,
                     binaryResult(opcode, cpu.gpr[destReg], cpu.gpr[srcReg]), 3)
      [] opcode = Opcode.MOV_REG_ADDR_TO_REG ->
           moved(memory, [cpu EXCEPT !.gpr[destReg] = memoryAt(memory, cpu.gpr[srcReg])])
      [] opcode = Opcode.MOV_REG_TO_REG_ADDR ->
           moved([memory EXCEPT ![cpu.gpr[destReg]] = cpu.gpr[srcReg]], cpu)
      [] opcode = Opcode.CMP_REG_WITH_REG ->
           compare(memory, cpu, destReg, cpu.gpr[srcReg])))))

case_registerByte(memory, cpu, opcode) ==
  Try(checkIP(cpu.ip + 1), LAMBDA first :
  Try(checkGPR(memoryAt(memory, first)), LAMBDA destReg :
  Try(checkIP(cpu.ip + 2), LAMBDA second :
  Bind(memoryAt(memory, second), LAMBDA value :
    CASE opcode \in RegNumOpcodes ->
           writeBack(memory, cpu, destReg,
                     binaryResult(opcode, cpu.gpr[destReg], value), 3)
      [] opcode = Opcode.MOV_NUM_TO_REG ->
           moved(memory, [cpu EXCEPT !.gpr[destReg] = value])
      [] opcode = Opcode.MOV_ADDR_TO_REG ->
           moved(memory, [cpu EXCEPT !.gpr[destReg] = memoryAt(memory, value)])
      [] opcode = Opcode.CMP_REG_WITH_NUM ->
           compare(memory, cpu, destReg, value)
      [] opcode = Opcode.CMP_REG_WITH_ADDR ->
           compare(memory, cpu, destReg, memoryAt(memory, value))))))

case_register(memory, cpu, opcode) ==
  Try(checkIP(cpu.ip + 1), LAMBDA first :
  Try(checkGPR(memoryAt(memory, first)), LAMBDA destReg :
    writeBack(memory, cpu, destReg, unaryResult(opcode, cpu.gpr[destReg]), 2)))

case_MOV_REG_TO_ADDR_legacy(memory, cpu) ==
  Try(checkIP(cpu.ip + 1), LAMBDA first :
  Try(checkIP(cpu.ip + 2), LAMBDA second :
  Try(checkGPR(memoryAt(memory, second)), LAMBDA srcReg :
    moved([memory EXCEPT ![memoryAt(memory, first)] = cpu.gpr[srcReg]], cpu))))

\* The flag a conditional jump reads and the value it jumps on.
jumps(cpu, opcode) ==
  CASE opcode = Opcode.JMP -> TRUE
    [] opcode = Opcode.JZ -> cpu.sr[Flag.Zero]
    [] opcode = Opcode.JNZ -> ~cpu.sr[Flag.Zero]
    [] opcode = Opcode.JS -> cpu.sr[Flag.Sign]
    [] opcode = Opcode.JNS -> ~cpu.sr[Flag.Sign]
    [] opcode = Opcode.JO -> cpu.sr[Flag.Overflow]
    [] opcode = Opcode.JNO -> ~cpu.sr[Flag.Overflow]

case_jump(memory, cpu, opcode) ==
  Try(checkIP(cpu.ip + (IF jumps(cpu, opcode)
                        THEN sign8(memoryAt(memory, cpu.ip + 1)) ELSE 2)),
      LAMBDA address : Returns([memory |-> memory, cpu |-> [cpu EXCEPT !.ip = address]]))

\* A faulty variant of case_none: an opcode with no case is stepped over.
case_none_steppedOver(memory, cpu) ==
  Returns([memory |-> memory, cpu |-> [cpu EXCEPT !.ip = @ + 1]])

\* The switch has no default: no case runs, the draft is returned as it is.
case_none(memory, cpu) == Returns([memory |-> memory, cpu |-> cpu])

\* The opcodes that have a case in the switch.
CaseOpcodes ==
  {Opcode.END} \cup TwoRegisterOpcodes \cup RegisterByteOpcodes \cup RegOpcodes
    \cup JumpOpcodes \cup {Opcode.MOV_REG_TO_ADDR}

\* step of features/cpu/core.ts: what it returns, or the error it throws.
cpu_core_step(memory, cpu) ==
  Bind(memoryAt(memory, cpu.ip), LAMBDA opcode :
    CASE opcode = Opcode.END ->
           Returns([memory |-> memory, cpu |-> [cpu EXCEPT !.isHalted = TRUE]])
      [] opcode \in TwoRegisterOpcodes -> case_twoRegisters(memory, cpu, opcode)
      [] opcode \in RegisterByteOpcodes -> case_registerByte(memory, cpu, opcode)
      [] opcode \in RegOpcodes -> case_register(memory, cpu, opcode)
      [] opcode \in JumpOpcodes -> case_jump(memory, cpu, opcode)
      [] opcode = Opcode.MOV_REG_TO_ADDR -> case_MOV_REG_TO_ADDR_legacy(memory, cpu)
      [] OTHER -> case_none(memory, cpu))

\* One instruction of every byte at 0 and at the end of memory, with a valid
\* and with an invalid register after it.
LegacyPrograms ==
  { Place(Place(initMemory, 16, <<Opcode.NOP>>), site, <<opcode>> \o operands) :
      opcode \in Byte, site \in {0, TailAddr}, operands \in {<<AL, BL>>, <<BL, 4>>} }

InitLegacy ==
  /\ memoryData \in LegacyPrograms
  /\ \E site \in {0, TailAddr}, al \in {0, 16, 129} :
       cpuRegisters = [init EXCEPT !.ip = site, !.gpr = [r \in 0..3 |-> al + r]]
  /\ signals = initialSignals
  /\ error = NoError
  /\ errorArgument = undefined
  /\ steps = 0
  /\ AssemblerIdle

\* The caller runs the step on the memory and the CPU it holds, and keeps
\* them when the step throws.
StepLegacy ==
  /\ steps < MaxSteps
  /\ LET result == cpu_core_step(memoryData, cpuRegisters)
     IN /\ error' = result.error
        /\ errorArgument' = IF result.error # NoError THEN result.value ELSE undefined
        /\ memoryData' = IF result.error # NoError THEN memoryData ELSE result.value.memory
        /\ cpuRegisters' = IF result.error # NoError THEN cpuRegisters ELSE result.value.cpu
  /\ steps' = steps + 1
  /\ UNCHANGED <<signals, assemblerVars>>

SpecLegacy == InitLegacy /\ [][StepLegacy]_vars

(***************************************************************************)
(* What the properties read off a transition: the state before the step    *)
(* is unprimed, the state the caller holds after it is primed.             *)
(***************************************************************************)
StepTaken == steps' = steps + 1
Raised == error' # NoError

ip == cpuRegisters.ip
sp == cpuRegisters.sp
gpr == cpuRegisters.gpr
sr == cpuRegisters.sr

\* The byte at an address, when the address is in memory.
Mem(address) == IF address \in DOMAIN memoryData THEN memoryData[address] ELSE undefined

TrapPending == signals.input.interrupt /\ sr[Flag.Interrupt] = FlagStatus.On

\* The step executes the instruction at ip, and its opcode is one of opcodes.
Executing(opcodes) == StepTaken /\ ~TrapPending /\ Mem(ip) \in opcodes

StackOpcodes ==
  { Opcode.PUSH_FROM_REG, Opcode.POP_TO_REG, Opcode.PUSHF, Opcode.POPF,
    Opcode.CALL_ADDR, Opcode.RET, Opcode.INT_ADDR, Opcode.IRET }

WriteBackOpcodes == RegRegOpcodes \cup RegOpcodes \cup RegNumOpcodes

\* The second operand of the arithmetic instruction at ip.
Operand ==
  CASE Mem(ip) \in RegRegOpcodes \cup {Opcode.CMP_REG_WITH_REG} -> gpr[Mem(ip + 2)]
    [] Mem(ip) \in RegNumOpcodes \cup {Opcode.CMP_REG_WITH_NUM} -> Mem(ip + 2)
    [] Mem(ip) = Opcode.CMP_REG_WITH_ADDR -> Mem(Mem(ip + 2))
    [] OTHER -> undefined

\* The raw result of the write-back instruction at ip on previous and operand.
RawResult(previous, operand) ==
  CASE Mem(ip) \in {Opcode.ADD_REG_TO_REG, Opcode.ADD_NUM_TO_REG} -> previous + operand
    [] Mem(ip) \in {Opcode.SUB_REG_FROM_REG, Opcode.SUB_NUM_FROM_REG} -> previous - operand
    [] Mem(ip) \in {Opcode.MUL_REG_BY_REG, Opcode.MUL_REG_BY_NUM} -> previous * operand
    [] Mem(ip) \in {Opcode.DIV_REG_BY_REG, Opcode.DIV_REG_BY_NUM} -> previous \div operand
    [] Mem(ip) \in {Opcode.MOD_REG_BY_REG, Opcode.MOD_REG_BY_NUM} -> previous % operand
    [] Mem(ip) \in {Opcode.AND_REG_WITH_REG, Opcode.AND_REG_WITH_NUM} -> BitAnd(previous, operand)
    [] Mem(ip) \in {Opcode.OR_REG_WITH_REG, Opcode.OR_REG_WITH_NUM} -> BitOr(previous, operand)
    [] Mem(ip) \in {Opcode.XOR_REG_WITH_REG, Opcode.XOR_REG_WITH_NUM} -> BitXor(previous, operand)
    [] Mem(ip) = Opcode.INC_REG -> previous + 1
    [] Mem(ip) = Opcode.DEC_REG -> previous - 1
    [] Mem(ip) = Opcode.NOT_REG -> 0 - previous - 1
    [] Mem(ip) = Opcode.ROL_REG -> 2 * previous + (previous \div 128)
    [] Mem(ip) = Opcode.ROR_REG -> (previous % 2) * 128 + (previous \div 2)
    [] Mem(ip) = Opcode.SHL_REG -> 2 * previous
    [] Mem(ip) = Opcode.SHR_REG -> previous \div 2

(***************************************************************************)
(* C1..C10.                                                                *)
(***************************************************************************)

\* C1: a step that raises yields no new state: memory, registers (ip and
\* memory[sp] included) and signals are what they were before the step.
C1_ErrorAtomicity ==
  [][(StepTaken /\ Raised) =>
       /\ memoryData' = memoryData
       /\ cpuRegisters' = cpuRegisters
       /\ signals' = signals]_vars

\* A push on the full stack raised StackOverflowError, after writing memory[0]
\* on the draft, and the caller holds the state from before.
C1_Witness ==
  /\ error = StackOverflowError
  /\ sp = 0
  /\ steps > 0

\* C2 (as claimed): after every step that does not raise, ip is in 0..255.
C2_IpInRange == error = NoError => ip \in Byte

\* C3: every step leaves sp in 0..0xBF, and a step that neither traps nor
\* executes a stack opcode leaves sp unchanged.
C3_SpInRange ==
  [][StepTaken =>
       /\ sp' \in 0..MAX_SP
       /\ (~TrapPending /\ Mem(ip) \notin StackOpcodes) => sp' = sp]_vars

\* A push took sp down to 0 without raising.
C3_Witness ==
  /\ sp = 0
  /\ error = NoError
  /\ steps = 2
  /\ memoryData[1] = 0

\* C4 (as claimed): after a flag-setting operation the Overflow flag is
\* (previous value < 0x80) XOR (final result < 0x80), the final result being
\* the raw result mod 256.
C4_OverflowRule ==
  [][(Executing(WriteBackOpcodes \cup CmpOpcodes) /\ ~Raised) =>
       LET previous == gpr[Mem(ip + 1)]
           final == IF Mem(ip) \in CmpOpcodes
                    THEN (previous - Operand) % 256
                    ELSE gpr'[Mem(ip + 1)]
       IN (sr'[Flag.Overflow] = FlagStatus.On) <=> ((previous < 128) # (final < 128))]_vars

\* C5: a write-back arithmetic instruction on bytes writes its raw result mod
\* 256 to the destination (ADD: (a + b) mod 256), which stays a byte, and sets
\* Zero iff that value is 0 and Sign iff it is >= 0x80.
C5_ResultWrap ==
  [][(Executing(WriteBackOpcodes) /\ ~Raised) =>
       LET dest == Mem(ip + 1)
           final == gpr'[dest]
       IN /\ final \in Byte
          /\ final = RawResult(gpr[dest], Operand) % 256
          /\ Mem(ip) \in {Opcode.ADD_REG_TO_REG, Opcode.ADD_NUM_TO_REG}
               => final = (gpr[dest] + Operand) % 256
          /\ (sr'[Flag.Zero] = FlagStatus.On) <=> (final = 0)
          /\ (sr'[Flag.Sign] = FlagStatus.On) <=> (final >= 128)
          /\ ~(sr'[Flag.Zero] = FlagStatus.On /\ sr'[Flag.Sign] = FlagStatus.On)]_vars

\* 0xFF + 0x81 was added: AL wrapped to 0x80 and only Sign is set.
C5_Witness ==
  /\ steps = 4
  /\ memoryData[7] = Opcode.ADD_REG_TO_REG
  /\ memoryData[3] = 255 /\ memoryData[6] = 129 /\ memoryData[9] = BL
  /\ gpr[AL] = 128
  /\ sr[Flag.Sign] = FlagStatus.On /\ sr[Flag.Zero] = FlagStatus.Off

\* C6: an IN on port p <= MAX_PORT that is executed waits while the input
\* content is null or its port is not p: ip, registers and memory stay and
\* the required input port becomes p; with content c on port p, AL becomes c
\* and ip advances by 2 (past 0xFF the step raises instead).
C6_InHandshake ==
  [][(Executing({Opcode.IN_FROM_PORT_TO_AL}) /\ Mem(ip + 1) \in 0..MAX_PORT) =>
       LET p == Mem(ip + 1)
           data == signals.input.data
       IN IF data.content = null \/ data.port # p
          THEN /\ ~Raised
               /\ cpuRegisters' = cpuRegisters
               /\ memoryData' = memoryData
               /\ signals'.output.requiredInputDataPort = p
          ELSE IF ip + 2 <= 255
          THEN /\ ~Raised
               /\ cpuRegisters' = [cpuRegisters EXCEPT !.gpr[AL] = data.content,
                                                       !.ip = ip + 2]
               /\ memoryData' = memoryData
          ELSE error' = RunBeyondEndOfMemoryError]_vars

\* The IN at 3 waited for port 5 and then took 0x7F from it.
C6_Witness ==
  /\ memoryData[3] = Opcode.IN_FROM_PORT_TO_AL /\ memoryData[4] = 5
  /\ ip = 5
  /\ gpr[AL] = 127
  /\ signals.input.data = [content |-> 127, port |-> 5]
  /\ signals.output.requiredInputDataPort = 5
  /\ steps = 3

\* C7 (as claimed): the step of an IN that consumes the byte returns signals
\* whose required input port is null again.
C7_RequestCleared ==
  [][(/\ Executing({Opcode.IN_FROM_PORT_TO_AL})
      /\ ~Raised
      /\ signals.output.requiredInputDataPort = Mem(ip + 1)
      /\ signals.input.data.content # null
      /\ signals.input.data.port = Mem(ip + 1))
       => signals'.output.requiredInputDataPort = null]_vars

\* What a hardware trap does to the state: ip is stored at memory[sp], sp is
\* decremented and ip is read from the vector (after the store); on the full
\* stack StackOverflowError is raised.
TrapEffect ==
  IF sp = 0
  THEN /\ error' = StackOverflowError
       /\ memoryData' = memoryData
       /\ cpuRegisters' = cpuRegisters
       /\ signals' = signals
  ELSE /\ ~Raised
       /\ signals' = signals
       /\ memoryData' = [memoryData EXCEPT ![sp] = ip]
       /\ cpuRegisters' = [cpuRegisters EXCEPT !.sp = sp - 1,
                                               !.ip = memoryData'[HARDWARE_INTERRUPT_VECTOR_ADDR]]

\* What the step does with the interrupt line low.
QuietEffect ==
  LET quiet == step([ memoryData |-> memoryData, cpuRegisters |-> cpuRegisters,
                      signals |-> [signals EXCEPT !.input.interrupt = FALSE] ])
  IN /\ memoryData' = quiet.memoryData
     /\ cpuRegisters' = quiet.cpuRegisters
     /\ signals'.output = quiet.signals.output
     /\ error' = quiet.error

\* C8: a step traps iff the interrupt signal is true and the Interrupt flag
\* is on; a trapping step does not execute the instruction at ip, whatever it
\* is, but stores ip at memory[sp], decrements sp and sets ip = memory[0x02];
\* with the flag off the instruction at ip executes as with the line low.
C8_HardwareTrap ==
  [][StepTaken =>
       /\ signals'.input = signals.input
       /\ IF TrapPending THEN TrapEffect ELSE QuietEffect]_vars

\* The trap was taken at the END at 4 (after sti): nothing halted, 4 is on
\* the stack and ip is at the handler.
C8_Witness ==
  /\ memoryData[3] = Opcode.STI /\ memoryData[4] = Opcode.END
  /\ ip = HandlerAddr
  /\ sp = MAX_SP - 1
  /\ memoryData[MAX_SP] = 4
  /\ ~signals.output.halted
  /\ signals.input.interrupt

\* C9: with no trap taken, END and HALT set halted and leave ip, sp, the
\* registers, the status register and memory; nothing else sets halted, and
\* halted never goes back to false.
C9_Halt ==
  [][/\ Executing({Opcode.END, Opcode.HALT}) =>
          /\ ~Raised
          /\ signals'.output.halted
          /\ cpuRegisters' = cpuRegisters
          /\ memoryData' = memoryData
     /\ signals.output.halted => signals'.output.halted
     /\ (signals'.output.halted /\ ~signals.output.halted)
          => Executing({Opcode.END, Opcode.HALT})]_vars

\* The machine halted at the END at 4.
C9_Witness ==
  /\ signals.output.halted
  /\ ip = 4
  /\ memoryData[3] = Opcode.NOP
  /\ steps = 3

\* C10: the Interrupt flag after an arithmetic, logic, shift, rotate or CMP
\* instruction is the flag before it; a step changes it only by executing
\* STI, CLI or POPF.
C10_InterruptFlagPreserved ==
  [][StepTaken =>
       /\ Executing(WriteBackOpcodes \cup CmpOpcodes)
            => sr'[Flag.Interrupt] = sr[Flag.Interrupt]
       /\ sr'[Flag.Interrupt] # sr[Flag.Interrupt]
            => Executing({Opcode.STI, Opcode.CLI, Opcode.POPF})]_vars

\* After sti, add al, 81 set Sign and left the Interrupt flag on.
C10_Witness ==
  /\ memoryData[3] = Opcode.STI /\ memoryData[4] = Opcode.ADD_NUM_TO_REG
  /\ gpr[AL] = 129
  /\ sr[Flag.Sign] = FlagStatus.On
  /\ sr[Flag.Interrupt] = FlagStatus.On
  /\ ip = 7

(***************************************************************************)
(* C11..C20.                                                               *)
(***************************************************************************)

\* What the next step gives on what this step returned, the bus unchanged.
Second ==
  step([ memoryData |-> memoryData', cpuRegisters |-> cpuRegisters', signals |-> signals' ])

\* The opcode the next step executes, no trap taken.
NextOpcode ==
  IF cpuRegisters'.ip \in DOMAIN memoryData'
  THEN memoryData'[cpuRegisters'.ip] ELSE undefined

C12_PushPopRoundTrip ==
  [][/\ (Executing({Opcode.PUSH_FROM_REG}) /\ ~Raised) =>
          /\ memoryData' = [memoryData EXCEPT ![sp] = gpr[Mem(ip + 1)]]
          /\ cpuRegisters' = [cpuRegisters EXCEPT !.sp = sp - 1, !.ip = ip + 2]
     /\ (Executing({Opcode.POP_TO_REG}) /\ ~Raised) =>
          /\ memoryData' = memoryData
          /\ cpuRegisters' = [cpuRegisters EXCEPT !.sp = sp + 1, !.ip = ip + 2,
                                                  !.gpr[Mem(ip + 1)] = memoryData[sp + 1]]
     /\ (/\ Executing({Opcode.PUSH_FROM_REG}) /\ ~Raised
         /\ NextOpcode = Opcode.POP_TO_REG /\ Second.error = NoError) =>
          /\ Second.cpuRegisters.gpr[memoryData'[cpuRegisters'.ip + 1]] = gpr[Mem(ip + 1)]
          /\ Second.cpuRegisters.sp = sp]_vars

\* push al; pop bl was run on the empty stack with AL = 0x11: BL is 0x11 and
\* sp is 0xBF again.
C12_Witness ==
  /\ steps = 2
  /\ error = NoError
  /\ memoryData[0] = Opcode.PUSH_FROM_REG /\ memoryData[1] = AL
  /\ memoryData[2] = Opcode.POP_TO_REG /\ memoryData[3] = BL
  /\ ip = 4
  /\ gpr[AL] = 17 /\ gpr[BL] = 17
  /\ sp = MAX_SP
  /\ memoryData[MAX_SP] = 17

\* C13: on each of the 16 status registers, a PUSHF followed by the step of
\* a POPF leaves the four flags and sp as they were before the PUSHF, and
\* getSrFrom(getSrValue(sr)) = sr.
C13_PushfPopfRoundTrip ==
  [][(/\ Executing({Opcode.PUSHF}) /\ ~Raised
      /\ NextOpcode = Opcode.POPF /\ Second.error = NoError) =>
       /\ Second.cpuRegisters.sr = sr
       /\ Second.cpuRegisters.sp = sp
       /\ getSrFrom(getSrValue(sr)) = sr]_vars

\* pushf; popf was run with Zero, Sign and Interrupt on and Overflow off.
C13_Witness ==
  /\ steps = 2
  /\ error = NoError
  /\ memoryData[0] = Opcode.PUSHF /\ memoryData[1] = Opcode.POPF
  /\ ip = 2
  /\ sr = [f \in 0..3 |-> IF f = Flag.Overflow THEN FlagStatus.Off ELSE FlagStatus.On]
  /\ sp = MAX_SP
  /\ memoryData[MAX_SP] = 26

\* Bit k of a byte.
Bit(v, k) == (v \div (2 ^ k)) % 2

\* C14: PUSHF pushes zero*2 + overflow*4 + sign*8 + interrupt*16, a byte whose
\* bits 0 and 5-7 are 0; POPF of any byte v sets Zero, Overflow, Sign and
\* Interrupt to bits 1, 2, 3 and 4 of v, whatever bits 0 and 5-7 are.
C14_StatusByteLayout ==
  [][/\ (Executing({Opcode.PUSHF}) /\ ~Raised) =>
          /\ memoryData'[sp] = sr[Flag.Zero] * 2 + sr[Flag.Overflow] * 4
                                 + sr[Flag.Sign] * 8 + sr[Flag.Interrupt] * 16
          /\ \A k \in {0, 5, 6, 7} : Bit(memoryData'[sp], k) = 0
     /\ (Executing({Opcode.POPF}) /\ ~Raised) =>
          /\ sr'[Flag.Zero] = Bit(memoryData[sp + 1], 1)
          /\ sr'[Flag.Overflow] = Bit(memoryData[sp + 1], 2)
          /\ sr'[Flag.Sign] = Bit(memoryData[sp + 1], 3)
          /\ sr'[Flag.Interrupt] = Bit(memoryData[sp + 1], 4)]_vars

\* POPF popped 0xE1, whose bits 0 and 5-7 are set and bits 1-4 clear: the
\* four flags are off.
C14_Witness ==
  /\ steps = 1
  /\ error = NoError
  /\ memoryData[0] = Opcode.POPF
  /\ memoryData[MAX_SP] = 225
  /\ sp = MAX_SP
  /\ ip = 1
  /\ sr = [f \in 0..3 |-> FlagStatus.Off]

\* The step pushes: it traps, or executes PUSH, PUSHF, CALL or INT.
Pushing ==
  StepTaken /\ (TrapPending \/ Mem(ip) \in { Opcode.PUSH_FROM_REG, Opcode.PUSHF,
                                             Opcode.CALL_ADDR, Opcode.INT_ADDR })

\* The step pops: it executes POP, POPF, RET or IRET.
Popping == Executing({Opcode.POP_TO_REG, Opcode.POPF, Opcode.RET, Opcode.IRET})

\* The register operand of the PUSH or POP at ip is no register (the step
\* raises on it before it gets to the stack).
NoRegisterOperand ==
  /\ Executing({Opcode.PUSH_FROM_REG, Opcode.POP_TO_REG})
  /\ Mem(ip + 1) \notin 0..3

\* C15: a pop with sp = 0xBF raises StackUnderflowError and a push with
\* sp = 0 raises StackOverflowError; a step raises StackUnderflowError only
\* as a pop with sp = 0xBF and StackOverflowError only as a push with sp = 0.
C15_StackBounds ==
  [][StepTaken =>
       /\ (Popping /\ sp = MAX_SP /\ ~NoRegisterOperand) => error' = StackUnderflowError
       /\ (Pushing /\ sp = 0 /\ ~NoRegisterOperand) => error' = StackOverflowError
       /\ error' = StackUnderflowError => (Popping /\ sp = MAX_SP)
       /\ error' = StackOverflowError => (Pushing /\ sp = 0)]_vars

\* A RET on the empty stack raised StackUnderflowError.
C15_Witness ==
  /\ steps = 1
  /\ error = StackUnderflowError
  /\ sp = MAX_SP
  /\ memoryData[ip] = Opcode.RET
  /\ ~signals.input.interrupt

\* The condition of the jump at ip holds.
Taken ==
  CASE Mem(ip) = Opcode.JMP -> TRUE
    [] Mem(ip) = Opcode.JZ -> sr[Flag.Zero] = FlagStatus.On
    [] Mem(ip) = Opcode.JNZ -> sr[Flag.Zero] = FlagStatus.Off
    [] Mem(ip) = Opcode.JS -> sr[Flag.Sign] = FlagStatus.On
    [] Mem(ip) = Opcode.JNS -> sr[Flag.Sign] = FlagStatus.Off
    [] Mem(ip) = Opcode.JO -> sr[Flag.Overflow] = FlagStatus.On
    [] Mem(ip) = Opcode.JNO -> sr[Flag.Overflow] = FlagStatus.Off

\* The operand byte of the jump at ip read as a signed byte.
Displacement == IF Mem(ip + 1) >= 128 THEN Mem(ip + 1) - 256 ELSE Mem(ip + 1)

\* C16: a jump at a with operand byte d sets ip = a + sign8(d) when its
\* condition holds and ip = a + 2 otherwise, and changes nothing else (past
\* 0xFF the step raises instead and changes nothing).
C16_JumpSemantics ==
  [][(Executing(JumpOpcodes) /\ ip + 1 <= 255) =>
       LET target == IF Taken THEN ip + Displacement ELSE ip + 2
       IN /\ memoryData' = memoryData
          /\ signals' = signals
          /\ IF target > 255
             THEN error' = RunBeyondEndOfMemoryError /\ cpuRegisters' = cpuRegisters
             ELSE ~Raised /\ cpuRegisters' = [cpuRegisters EXCEPT !.ip = target]]_vars

\* The JS at 128 with operand 0xFE was taken with Sign on: ip is 126.
C16_Witness ==
  /\ steps = 1
  /\ error = NoError
  /\ memoryData[128] = Opcode.JS /\ memoryData[129] = 254
  /\ sr[Flag.Sign] = FlagStatus.On
  /\ ip = 126

DispatchedOpcodes == { Opcode[name] : name \in DOMAIN Opcode }

\* C18: when no trap is taken and the byte at ip is not an opcode step has a
\* case for, the step raises InvalidOpcodeError carrying that byte and changes
\* no state.
C18_UnknownOpcode ==
  [][(StepTaken /\ ~TrapPending /\ Mem(ip) \notin DispatchedOpcodes) =>
       /\ error' = InvalidOpcodeError
       /\ errorArgument' = Mem(ip)
       /\ memoryData' = memoryData
       /\ cpuRegisters' = cpuRegisters
       /\ signals' = signals]_vars

\* The byte 0xA7 at 253 was fetched with the interrupt line up and the
\* Interrupt flag off.
C18_Witness ==
  /\ steps = 1
  /\ error = InvalidOpcodeError
  /\ errorArgument = 167
  /\ ip = 253
  /\ memoryData[253] = 167
  /\ signals.input.interrupt
  /\ sr[Flag.Interrupt] = FlagStatus.Off

DivisionOpcodes ==
  { Opcode.DIV_REG_BY_REG, Opcode.MOD_REG_BY_REG, Opcode.DIV_REG_BY_NUM, Opcode.MOD_REG_BY_NUM }

\* The step executes a division whose register operands are registers.
Dividing ==
  /\ Executing(DivisionOpcodes)
  /\ ip + 2 <= 255
  /\ Mem(ip + 1) \in 0..3
  /\ Mem(ip) \in RegRegOpcodes => Mem(ip + 2) \in 0..3

\* C19: DIV and MOD by a register or a number raise DivideByZeroError when the
\* divisor is 0, whatever the dividend, and leave the registers, the flags and
\* ip as they were; no step raises it on a divisor that is not 0.
C19_DivideByZero ==
  [][StepTaken =>
       /\ (Dividing /\ Operand = 0) =>
            /\ error' = DivideByZeroError
            /\ cpuRegisters' = cpuRegisters
            /\ memoryData' = memoryData
            /\ signals' = signals
       /\ error' = DivideByZeroError => (Dividing /\ Operand = 0)]_vars

\* mov al, C8; mov bl, 00; mod al, bl has raised and AL is still 0xC8.
C19_Witness ==
  /\ steps = 4
  /\ error = DivideByZeroError
  /\ memoryData[ip] = Opcode.MOD_REG_BY_REG
  /\ memoryData[ip + 1] = AL /\ memoryData[ip + 2] = BL
  /\ gpr[AL] = 200 /\ gpr[BL] = 0

\* Which of the bytes after an opcode step passes through checkGpr.
RegisterOperands(opcode) ==
  IF opcode \in RegRegOpcodes \cup { Opcode.CMP_REG_WITH_REG, Opcode.MOV_REG_ADDR_TO_REG,
                                    Opcode.MOV_REG_TO_REG_ADDR }
  THEN {1, 2}
  ELSE IF opcode \in RegOpcodes \cup RegNumOpcodes
                       \cup { Opcode.MOV_NUM_TO_REG, Opcode.MOV_ADDR_TO_REG,
                              Opcode.CMP_REG_WITH_NUM, Opcode.CMP_REG_WITH_ADDR,
                              Opcode.PUSH_FROM_REG, Opcode.POP_TO_REG }
  THEN {1}
  ELSE IF opcode = Opcode.MOV_REG_TO_ADDR THEN {2}
  ELSE {}

\* C20: when a register operand byte of the instruction at ip is not in 0..3
\* the step raises InvalidRegisterError and writes no register, flag or memory
\* byte; the register file has the four entries 0..3 after every step.
C20_RegisterValidation ==
  [][StepTaken =>
       /\ ( /\ ~TrapPending
            /\ \E k \in RegisterOperands(Mem(ip)) :
                 ip + k <= 255 /\ Mem(ip + k) \notin 0..3 ) =>
            /\ error' = InvalidRegisterError
            /\ errorArgument' \notin 0..3
            /\ cpuRegisters' = cpuRegisters
            /\ memoryData' = memoryData
            /\ signals' = signals
       /\ DOMAIN cpuRegisters'.gpr = 0..3]_vars

\* mov [03], <register 4> at 0 has raised: nothing was stored at 3.
C20_Witness ==
  /\ steps = 1
  /\ error = InvalidRegisterError
  /\ errorArgument = 4
  /\ ip = 0
  /\ memoryData[0] = Opcode.MOV_REG_TO_ADDR /\ memoryData[1] = 3 /\ memoryData[2] = 4
  /\ memoryData[3] = 0

\* C21: OUT with a port byte p <= MAX_PORT puts {content: AL, port: p} on the
\* output data, moves ip by 2 and changes nothing else; IN or OUT with a port
\* byte above MAX_PORT raises InvalidPortError and changes nothing, the
\* output signals included.
C21_OutAndPorts ==
  [][StepTaken =>
       /\ ( /\ Executing({Opcode.OUT_FROM_AL_TO_PORT})
            /\ ip + 1 <= 255
            /\ Mem(ip + 1) <= MAX_PORT ) =>
            /\ memoryData' = memoryData
            /\ IF ip + 2 > 255
               THEN /\ error' = RunBeyondEndOfMemoryError
                    /\ cpuRegisters' = cpuRegisters
                    /\ signals' = signals
               ELSE /\ ~Raised
                    /\ cpuRegisters' = [cpuRegisters EXCEPT !.ip = ip + 2]
                    /\ signals' = [signals EXCEPT !.output.data =
                                     [content |-> gpr[AL], port |-> Mem(ip + 1)]]
       /\ ( /\ Executing({Opcode.IN_FROM_PORT_TO_AL, Opcode.OUT_FROM_AL_TO_PORT})
            /\ ip + 1 <= 255
            /\ Mem(ip + 1) > MAX_PORT ) =>
            /\ error' = InvalidPortError
            /\ errorArgument' = Mem(ip + 1)
            /\ memoryData' = memoryData
            /\ cpuRegisters' = cpuRegisters
            /\ signals' = signals]_vars

\* out 0F at 253 with AL = 0x11 has put the byte on the last port.
C21_Witness ==
  /\ steps = 1
  /\ error = NoError
  /\ memoryData[253] = Opcode.OUT_FROM_AL_TO_PORT /\ memoryData[254] = MAX_PORT
  /\ ip = 255
  /\ gpr[AL] = 17
  /\ signals.output.data = [content |-> 17, port |-> MAX_PORT]
  /\ signals.output.requiredInputDataPort = null

\* C22: with no trap pending INT with operand byte v at a pushes a + 2 and
\* sets ip to the byte at address v; IRET pops one byte into ip; INT followed
\* by the handler's IRET leaves ip = a + 2 and sp, the registers and the
\* status register as they were.
C22_IntIret ==
  [][StepTaken =>
       /\ (Executing({Opcode.INT_ADDR}) /\ ip + 1 <= 255) =>
            /\ signals' = signals
            /\ IF sp = 0
               THEN /\ error' = StackOverflowError
                    /\ cpuRegisters' = cpuRegisters
                    /\ memoryData' = memoryData
               ELSE /\ ~Raised
                    /\ memoryData' = [memoryData EXCEPT ![sp] = ip + 2]
                    /\ cpuRegisters' = [cpuRegisters EXCEPT !.sp = sp - 1,
                                          !.ip = memoryData'[Mem(ip + 1)]]
       /\ Executing({Opcode.IRET}) =>
            /\ signals' = signals
            /\ memoryData' = memoryData
            /\ IF sp >= MAX_SP
               THEN error' = StackUnderflowError /\ cpuRegisters' = cpuRegisters
               ELSE /\ ~Raised
                    /\ cpuRegisters' = [cpuRegisters EXCEPT !.sp = sp + 1,
                                          !.ip = memoryData[sp + 1]]
       /\ (Executing({Opcode.INT_ADDR}) /\ ~Raised /\ NextOpcode = Opcode.IRET) =>
            /\ Second.error = NoError
            /\ Second.cpuRegisters = [cpuRegisters EXCEPT !.ip = ip + 2]]_vars

\* int 81 at 16, whose vector holds 0x82, and the iret at 0x82 have both run.
C22_Witness ==
  /\ steps = 2
  /\ error = NoError
  /\ memoryData[16] = Opcode.INT_ADDR /\ memoryData[17] = 129
  /\ memoryData[129] = 130 /\ memoryData[130] = Opcode.IRET
  /\ ip = 18
  /\ sp = MAX_SP
  /\ memoryData[MAX_SP] = 18

\* The memory in which the CMP at ip is the SUB of the same register and the
\* same operand.
SubTwin ==
  CASE Mem(ip) = Opcode.CMP_REG_WITH_REG ->
         [memoryData EXCEPT ![ip] = Opcode.SUB_REG_FROM_REG]
    [] Mem(ip) = Opcode.CMP_REG_WITH_NUM ->
         [memoryData EXCEPT ![ip] = Opcode.SUB_NUM_FROM_REG]
    [] Mem(ip) = Opcode.CMP_REG_WITH_ADDR ->
         [memoryData EXCEPT ![ip] = Opcode.SUB_NUM_FROM_REG, ![ip + 2] = Mem(Mem(ip + 2))]

\* What the step gives on SubTwin.
AsSub == step([ memoryData |-> SubTwin, cpuRegisters |-> cpuRegisters, signals |-> signals ])

\* C23: CMP of a register with a register, a number or a byte of memory sets
\* the flags as the SUB of the same operands does and moves ip by 3, and
\* leaves the registers, sp, memory and the signals as they were; Zero is on
\* exactly when the register equals the operand.
C23_CmpWritesNoRegister ==
  [][( /\ Executing(CmpOpcodes)
       /\ ip + 2 <= 255
       /\ Mem(ip + 1) \in 0..3
       /\ Mem(ip) = Opcode.CMP_REG_WITH_REG => Mem(ip + 2) \in 0..3 ) =>
       /\ memoryData' = memoryData
       /\ signals' = signals
       /\ error' = AsSub.error
       /\ IF ip + 3 > 255
          THEN error' = RunBeyondEndOfMemoryError /\ cpuRegisters' = cpuRegisters
          ELSE /\ ~Raised
               /\ cpuRegisters' = [cpuRegisters EXCEPT !.ip = ip + 3,
                                                       !.sr = AsSub.cpuRegisters.sr]
               /\ (sr'[Flag.Zero] = FlagStatus.On) <=> (gpr[Mem(ip + 1)] = Operand)
               /\ sr'[Flag.Interrupt] = sr[Flag.Interrupt]]_vars

\* mov al, 80; mov bl, 80; cmp al, [06] has run: Zero is on and AL is 0x80.
C23_Witness ==
  /\ steps = 4
  /\ error = NoError
  /\ memoryData[7] = Opcode.CMP_REG_WITH_ADDR /\ memoryData[8] = AL /\ memoryData[9] = 6
  /\ memoryData[6] = 128
  /\ gpr[AL] = 128
  /\ sr[Flag.Zero] = FlagStatus.On
  /\ ip = 10

(***************************************************************************)
(* C24..C29: the parser.  The properties read the tokens handed over and   *)
(* what parse returned or threw.                                           *)
(***************************************************************************)
ParseReturned == steps = 1 /\ assemblerError = NoAssemblerError
ParseThrew == steps = 1 /\ assemblerError # NoAssemblerError

\* The tokens are one statement of the mnemonic, and END when ended.
StatementOf(mnemonic, length, ended) ==
  /\ steps = 1
  /\ Len(tokens) = length + (IF ended THEN 1 ELSE 0)
  /\ tokens[1].type = TokenType.Unknown /\ Joined(tokens[1].value) = mnemonic
  /\ ended => Joined(tokens[Len(tokens)].value) = "END"

\* The operand type a token stands for, "none" when it stands for none: a
\* number above 0xFF, an address that is neither, a comma.
TypeOf(tok) ==
  CASE tok.type = TokenType.Digits ->
         IF hexToDec(tok.value) <= 255 THEN OperandType.Number ELSE "none"
    [] tok.type = TokenType.Register -> OperandType.Register
    [] tok.type = TokenType.Address ->
         IF NUMBER(tok.value)
         THEN (IF hexToDec(tok.value) <= 255 THEN OperandType.Address ELSE "none")
         ELSE IF REGISTER(tok.value) THEN OperandType.RegisterAddress ELSE "none"
    [] tok.type = TokenType.String -> OperandType.String
    [] tok.type = TokenType.Unknown ->
         IF NUMBER(tok.value)
         THEN (IF hexToDec(tok.value) <= 255 THEN OperandType.Number ELSE "none")
         ELSE IF LABEL_START(tok.value) THEN OperandType.Label ELSE "none"
    [] OTHER -> "none"

\* The table of MOV.
MovTable ==
  { <<OperandType.Register, OperandType.Number, Opcode.MOV_NUM_TO_REG>>,
    <<OperandType.Register, OperandType.Address, Opcode.MOV_ADDR_TO_REG>>,
    <<OperandType.Register, OperandType.RegisterAddress, Opcode.MOV_REG_ADDR_TO_REG>>,
    <<OperandType.Address, OperandType.Register, Opcode.MOV_REG_TO_ADDR>>,
    <<OperandType.RegisterAddress, OperandType.Register, Opcode.MOV_REG_TO_REG_ADDR>> }

Range(sequence) == { sequence[i] : i \in DOMAIN sequence }

ExpectedTypes(mnemonic, position) ==
  IF mnemonic \in MnemonicsWithOneOperand THEN Range(oneOperandTypes(mnemonic))
  ELSE IF mnemonic = "MOV"
  THEN IF position = 1
       THEN {OperandType.Register, OperandType.Address, OperandType.RegisterAddress}
       ELSE {OperandType.Number, OperandType.Register, OperandType.Address,
             OperandType.RegisterAddress}
  ELSE IF position = 1 THEN {OperandType.Register}
  ELSE IF mnemonic = "CMP"
  THEN {OperandType.Register, OperandType.Number, OperandType.Address}
  ELSE {OperandType.Register, OperandType.Number}

\* C25: every operand of a statement parse returns has one of the types its
\* mnemonic expects at that position.
C25_OperandTypesEnforced ==
  ParseReturned =>
    \A i \in DOMAIN statements :
      \A position \in DOMAIN statements[i].operands :
        statements[i].operands[position].type \in
          ExpectedTypes(Joined(statements[i].instruction.token.value), position)

\* The token is a hex literal above 0xFF.
TooBig(tok) ==
  /\ tok.type \in {TokenType.Digits, TokenType.Unknown, TokenType.Address}
  /\ NUMBER(tok.value)
  /\ hexToDec(tok.value) > 255

\* A number is accepted from the token as that operand of the mnemonic.
Accepting(mnemonic, position, tok) ==
  IF tok.type = TokenType.Address
  THEN OperandType.Address \in ExpectedTypes(mnemonic, position)
  ELSE OperandType.Number \in ExpectedTypes(mnemonic, position)

\* C26: every Number or Address operand parse returns has a value in 0..255;
\* a hex literal above 0xFF where a Number or an Address is accepted raises
\* InvalidNumberError, be it a Digits token, an Unknown token of hex digits
\* or the content of an Address token.
C26_NumberRange ==
  /\ ParseReturned =>
       \A i \in DOMAIN statements :
         \A position \in DOMAIN statements[i].operands :
           statements[i].operands[position].type
               \in {OperandType.Number, OperandType.Address} =>
             /\ Len(statements[i].operands[position].value) = 1
             /\ statements[i].operands[position].value[1] \in 0..255
  /\ \A mnemonic \in MnemonicsWithOneOperand \cup MnemonicsWithTwoOperands :
       ( /\ steps = 1
         /\ Len(tokens) >= 2
         /\ tokens[1].type = TokenType.Unknown /\ Joined(tokens[1].value) = mnemonic ) =>
         /\ (TooBig(tokens[2]) /\ Accepting(mnemonic, 1, tokens[2])) =>
              assemblerError = InvalidNumberError(tokens[2])
         /\ ( /\ mnemonic \in MnemonicsWithTwoOperands
              /\ Len(tokens) >= 4
              /\ TypeOf(tokens[2]) \in ExpectedTypes(mnemonic, 1)
              /\ tokens[3] = CommaToken
              /\ TooBig(tokens[4]) /\ Accepting(mnemonic, 2, tokens[4]) ) =>
              assemblerError = InvalidNumberError(tokens[4])

\* cmp al, [100] was refused for the number in the brackets.
C26_Witness ==
  /\ StatementOf("CMP", 4, TRUE)
  /\ tokens[2] = token(TokenType.Register, <<"A", "L">>)
  /\ tokens[3] = CommaToken
  /\ tokens[4] = token(TokenType.Address, <<"1", "0", "0">>)
  /\ assemblerError = InvalidNumberError(tokens[4])

\* Every token is a mnemonic that takes no operand: the list parses statement
\* by statement without an error.
NullaryOnly ==
  \A i \in DOMAIN tokens :
    /\ tokens[i].type = TokenType.Unknown
    /\ Joined(tokens[i].value) \in MnemonicsWithNoOperand

FirstOperandParsed(mnemonic) ==
  /\ steps = 1
  /\ Len(tokens) >= 2
  /\ tokens[1].type = TokenType.Unknown /\ Joined(tokens[1].value) = mnemonic
  /\ TypeOf(tokens[2]) \in ExpectedTypes(mnemonic, 1)

\* C28: for every mnemonic of two operands, once the first operand has
\* parsed, a token after it that is not a Comma raises MissingCommaError on
\* that token and no token after it raises MissingEndError, whatever stands
\* in the place of the second operand; with the comma there, the error, if
\* any, is another one.
C28_CommaBetweenOperands ==
  \A mnemonic \in MnemonicsWithTwoOperands :
    FirstOperandParsed(mnemonic) =>
      /\ Len(tokens) = 2 => assemblerError = MissingEndError
      /\ (Len(tokens) >= 3 /\ tokens[3].type # TokenType.Comma) =>
           assemblerError = MissingCommaError(tokens[3])
      /\ (Len(tokens) >= 3 /\ tokens[3].type = TokenType.Comma) =>
           assemblerError.name # "MissingCommaError"

\* add al 12 100: the comma is missed at 12, the 100 after it is not read.
C28_Witness ==
  /\ FirstOperandParsed("ADD")
  /\ Len(tokens) = 4
  /\ tokens[3] = token(TokenType.Digits, <<"1", "2">>)
  /\ tokens[4] = token(TokenType.Digits, <<"1", "0", "0">>)
  /\ assemblerError = MissingCommaError(tokens[3])

\* A statement starts at tokens[start]: at 1, or at 2 after a NOP.
StatementAt(start) ==
  /\ steps = 1
  /\ Len(tokens) >= start
  /\ start = 2 => tokens[1].type = TokenType.Unknown /\ Joined(tokens[1].value) = "NOP"

\* The statement at start begins with a label that parseLabel consumes.
LabelAt(start) == endsWithColon(tokens[start].value) /\ LABEL_START(tokens[start].value)

\* The token is an Unknown token that spells a mnemonic.
IsMnemonic(tok) == tok.type = TokenType.Unknown /\ Joined(tok.value) \in Mnemonic

\* C29: in every statement, a token after the optional label that is not an
\* Unknown token spelling a mnemonic raises StatementError on that token,
\* with hasLabel true exactly when a label was consumed before it.
C29_MnemonicDispatch ==
  \A start \in {1, 2} :
    StatementAt(start) =>
      /\ ( /\ ~endsWithColon(tokens[start].value)
           /\ ~IsMnemonic(tokens[start]) ) =>
           assemblerError = StatementError(tokens[start], FALSE)
      /\ ( /\ LabelAt(start)
           /\ Len(tokens) > start
           /\ ~IsMnemonic(tokens[start + 1]) ) =>
           assemblerError = StatementError(tokens[start + 1], TRUE)

\* nop, then loop: al was refused at al, with the label noted.
C29_Witness ==
  /\ StatementAt(2)
  /\ Len(tokens) = 3
  /\ LabelAt(2)
  /\ tokens[3] = token(TokenType.Register, <<"A", "L">>)
  /\ assemblerError = StatementError(tokens[3], TRUE)

\* A wrapper has assembled the source: the machine has not stepped.
WrapperRan == steps' = steps

C31_HaltedFrozen ==
  [][(signals.output.halted /\ StepTaken) =>
       /\ memoryData' = memoryData
       /\ cpuRegisters' = cpuRegisters
       /\ signals'.output.halted]_vars

\* C32: after any steps from a memory of 256 bytes, memory still has 256
\* entries and every one is a byte, the return addresses that CALL, INT and
\* the trap write and the stores of MOV included.
C32_MemoryStaysBytes ==
  /\ DOMAIN memoryData = Byte
  /\ \A address \in Byte : memoryData[address] \in 0..255

\* C33: step returns the input side of the bus as it was passed: the data
\* and the interrupt request are not cleared, neither by an IN that takes the
\* byte nor by a hardware trap.
C33_InputSideKept ==
  [][StepTaken => signals'.input = signals.input]_vars

\* The IN at 3 has taken 0x7F from port 5 and the byte is still on the bus.
C33_Witness ==
  /\ memoryData[3] = Opcode.IN_FROM_PORT_TO_AL /\ memoryData[4] = 5
  /\ ip = 5
  /\ gpr[AL] = 127
  /\ signals.input.data.content = 127 /\ signals.input.data.port = 5
  /\ error = NoError

\* C34: a hardware trap changes ip, sp and memory[sp] and nothing else, the
\* Interrupt flag included; so with the interrupt line held and the flag on
\* every next step traps again, sp goes down by one a step, and no more
\* than 0xC0 steps pass before a step raises StackOverflowError.
C34_HeldInterrupt ==
  /\ [][(StepTaken /\ TrapPending) =>
          /\ TrapEffect
          /\ sr' = sr
          /\ signals'.input.interrupt /\ cpuRegisters'.sr[Flag.Interrupt] = FlagStatus.On
          /\ ~Raised => cpuRegisters'.sp = sp - 1]_vars
  /\ []((TrapPending /\ steps >= 192) => error = StackOverflowError)

\* From a full stack the 0xC0th step of the held line raised StackOverflowError.
C34_Witness ==
  /\ TrapPending
  /\ steps = 192
  /\ sp = 0
  /\ memoryData[MAX_SP] \in {0, 16}
  /\ error = StackOverflowError

\* What the next step gives on what this step returned, the interrupt line
\* low again.
QuietSecond ==
  step([ memoryData |-> memoryData', cpuRegisters |-> cpuRegisters',
         signals |-> [signals' EXCEPT !.input.interrupt = FALSE] ])

\* C35: a hardware trap taken at ip = a whose handler is an IRET, followed by
\* the step of that IRET with no trap pending, leaves ip = a and sp as it
\* was: the interrupted instruction is the next to execute.
C35_TrapIretRoundTrip ==
  [][(StepTaken /\ TrapPending /\ ~Raised /\ NextOpcode = Opcode.IRET) =>
       /\ QuietSecond.error = NoError
       /\ QuietSecond.cpuRegisters.ip = ip
       /\ QuietSecond.cpuRegisters.sp = sp
       /\ QuietSecond.cpuRegisters = cpuRegisters]_vars

\* The trap at the END at 4 was taken, the line went low and the IRET of the
\* handler was run: ip is 4 again and the stack is empty.
C35_Witness ==
  /\ memoryData[3] = Opcode.STI /\ memoryData[4] = Opcode.END
  /\ memoryData[MAX_SP] = 4
  /\ ip = 4
  /\ sp = MAX_SP
  /\ ~signals.input.interrupt
  /\ ~signals.output.halted
  /\ steps = 4

\* C36: every statement parse returns whose mnemonic is neither ORG nor DB
\* has an opcode, and its machine codes begin with it; the statements of ORG
\* and DB, and only they, have none.
C36_OpcodePresent ==
  ParseReturned =>
    \A i \in DOMAIN statements :
      IF mnemonicOf(statements[i]) \in {"ORG", "DB"}
      THEN statements[i].instruction.opcode = null
      ELSE /\ statements[i].instruction.opcode # null
           /\ Len(statements[i].machineCodes) >= 1
           /\ statements[i].machineCodes[1] = statements[i].instruction.opcode

\* The tokens a statement was parsed from: its label, its mnemonic and its
\* operands, with the comma between two of them.
SpanOf(statement) ==
  (IF statement.label # NoLabel THEN <<statement.label.token>> ELSE <<>>)
    \o <<statement.instruction.token>>
    \o (CASE Len(statement.operands) = 0 -> <<>>
          [] Len(statement.operands) = 1 -> <<statement.operands[1].token>>
          [] Len(statement.operands) = 2 ->
               <<statement.operands[1].token, CommaToken, statement.operands[2].token>>)

\* The spans of the first n statements, one after the other.
RECURSIVE Spans(_)
Spans(n) == IF n = 0 THEN <<>> ELSE Spans(n - 1) \o SpanOf(statements[n])

\* C37: parse ends on every token list, by raising or by returning; each
\* statement it returns has consumed at least one token and exactly one for
\* a label, one for the mnemonic, one for each operand and one for the comma
\* between two, and the spans of the statements, in order, are the token
\* list: they touch, do not overlap and cover it.
C37_ParsePartitionsTokens ==
  /\ steps = 1 => (ParseReturned \/ ParseThrew)
  /\ ParseReturned =>
       /\ \A i \in DOMAIN statements :
            /\ getConsumedTokensCount(statements[i]) >= 1
            /\ getConsumedTokensCount(statements[i]) = Len(SpanOf(statements[i]))
            /\ Len(statements[i].operands) \in 0..2
       /\ Spans(Len(statements)) = tokens

\* loop: mov al, 12 and end were returned as two statements.
C37_Witness ==
  /\ ParseReturned
  /\ Len(tokens) = 6
  /\ Len(statements) = 2
  /\ statements[1].label # NoLabel
  /\ Len(statements[1].operands) = 2
  /\ Joined(statements[2].instruction.token.value) = "END"

\* The bytes named as unsupported: the opcodes of the stack, of CALL and RET,
\* INT and IRET, IN and OUT, STI, CLI and CLO, HALT and NOP, and the bytes
\* that are no opcode.
NamedUnsupported ==
  StackOpcodes
    \cup { Opcode.IN_FROM_PORT_TO_AL, Opcode.OUT_FROM_AL_TO_PORT,
           Opcode.STI, Opcode.CLI, Opcode.CLO, Opcode.HALT, Opcode.NOP }
    \cup (Byte \ { Opcode[name] : name \in DOMAIN Opcode })

\* The step of cpu/core.ts raised nothing and returned what it was given.
Untouched ==
  /\ ~Raised
  /\ memoryData' = memoryData
  /\ cpuRegisters' = cpuRegisters

====
